---------------------------- MODULE Spec2Model ----------------------------
(***************************************************************************)
(* Maps-using-AQI: the exposure estimator (src/src/services/AQIService.js) *)
(* and the multi-objective route-graph engine                              *)
(* (src/src/services/GraphRoutingService.js).                              *)
(*                                                                         *)
(* Units.  Coordinates are integers in micro-degrees (1e-6 deg), time is   *)
(* in milliseconds, distances are whole metres.  Floating-point results    *)
(* are modelled by exact scaled integers; the scale of each quantity is    *)
(* stated where it is defined.                                             *)
(*                                                                         *)
(* Three specifications share the module:                                  *)
(*   Spec      - AQIService: concurrent getAQI lookups, the tile cache,    *)
(*               the per-provider caches, the provider fetches, the clock; *)
(*   FairSpec  - Spec with the fairness the JS event loop gives to the     *)
(*               program's own continuations;                              *)
(*   RouteSpec - GraphRoutingService: routing requests over a road graph.  *)
(***************************************************************************)
EXTENDS Integers, Sequences, FiniteSets, TLC

VARIABLES
    now,        \* Date.now(), ms
    aqiCache,   \* AQIService.aqiCache: SimpleCache, a Map in insertion order
    srcCache,   \* AQIService.sourceSpecificCache[p]
    lk,         \* the getAQI calls in progress, one record per call slot
    evicted,    \* history: per tile, the entry the capacity limit removed from
                \* aqiCache, while it is younger than TILE_TTL_MS
    \* GraphRoutingService
    roadGraph,      \* Map nodeId -> Map neighbourId -> distance: a sequence
                    \* (node n at index n + 1) of sequences of [to, distance]
                    \* in insertion order
    nodePositions,  \* Map nodeId -> coordinate (node n at index n + 1)
    edgeWeights,    \* Map edgeKey -> {distance, midpoint}: a sequence of
                    \* [key, distance, midpoint] in insertion order
                    \* (estimatedTravelTime is distance / 13.89)
    gAqiCache,      \* GraphRoutingService.aqiCache: toFixed(3) key ->
                    \* [value, timestamp] (of aqiData only .value is read)
    air,            \* the aqiData the providers' aggregation would return now,
                    \* per tile
    rq,             \* the routing request in progress
    hist,           \* history: the number of requests made, and the route set
                    \* and the returned counts of the first build
    \* the page (src/src/mapLogic.js, src/script.js)
    ui,             \* the wrapped window.processRoutes: a second call in
                    \* progress, and what the last call handed on
    fx              \* one provider round taken from the answers to the
                    \* aggregate, without the caches


xvars == <<ui, fx>>
rvars == <<roadGraph, nodePositions, edgeWeights, gAqiCache, air, rq, hist, xvars>>
vars == <<now, aqiCache, srcCache, lk, evicted,
          roadGraph, nodePositions, edgeWeights, gAqiCache, air, rq, hist, ui, fx>>


(***************************************************************************)
(* Bounds of the model                                                     *)
(***************************************************************************)
MaxLookups == 1      \* getAQI calls that may be in progress at once
MaxTicks == 3        \* the clock advances at most this many times
AqiCacheMax == 1     \* capacity of aqiCache in the model (500 in the source)
SrcCacheMax == 1     \* capacity of a provider cache (300 in the source)
MaxRequests == 3     \* routing requests made, one after the other

(***************************************************************************)
(* Program constants                                                       *)
(***************************************************************************)
TILE_TTL_MS == 30 * 60 * 1000
TickMs == 15 * 60 * 1000          \* granularity of the modelled clock
TileSize == 20000                 \* getTileKey's tileSize = 0.02 deg

Providers == {"openweather", "iqair", "waqi"}

None == [none |-> TRUE]

\* The coordinates looked up: two in tile <<0,0>>, one in tile <<1,0>>.
Coords ==
    { [lat |-> 1000, lng |-> 1000], [lat |-> 19999, lng |-> 1000],
      [lat |-> 20000, lng |-> 1000] }

\* a \div b is floor(a / b) for b > 0: Math.floor(lat / tileSize)
getTileKey(c) == <<c.lat \div TileSize, c.lng \div TileSize>>

(***************************************************************************)
(* SimpleCache: a sequence of [key, value, timestamp] in the Map's         *)
(* insertion order.                                                        *)
(***************************************************************************)
CacheHas(cache, key) == \E i \in 1..Len(cache) : cache[i].key = key
CacheIdx(cache, key) == CHOOSE i \in 1..Len(cache) : cache[i].key = key
CacheDelete(cache, key) == SelectSeq(cache, LAMBDA e : e.key # key)

\* SimpleCache.get with the ttl taken for seconds
SimpleCacheGetTtlSeconds(cache, key, ttl, t) ==
    IF ~CacheHas(cache, key)
    THEN [cache |-> cache, hit |-> FALSE, value |-> None]
    ELSE LET item == cache[CacheIdx(cache, key)] IN
         IF t - item.timestamp > ttl \div 1000
         THEN [cache |-> CacheDelete(cache, key), hit |-> FALSE, value |-> None]
         ELSE [cache |-> cache, hit |-> TRUE, value |-> item.value]

\* SimpleCache.get: [cache |-> the Map afterwards, hit, value]
SimpleCacheGet(cache, key, ttl, t) ==
    IF ~CacheHas(cache, key)
    THEN [cache |-> cache, hit |-> FALSE, value |-> None]
    ELSE LET item == cache[CacheIdx(cache, key)] IN
         IF t - item.timestamp > ttl
         THEN [cache |-> CacheDelete(cache, key), hit |-> FALSE, value |-> None]
         ELSE [cache |-> cache, hit |-> TRUE, value |-> item.value]

\* Map.set: an existing key keeps its place, a new key goes last
MapSet(cache, key, value, t) ==
    LET e == [key |-> key, value |-> value, timestamp |-> t] IN
    IF CacheHas(cache, key)
    THEN [cache EXCEPT ![CacheIdx(cache, key)] = e]
    ELSE Append(cache, e)

\* SimpleCache.set: on a full cache the first key of the Map is deleted first
SimpleCacheSet(cache, maxSize, key, value, t) ==
    LET c1 == IF Len(cache) >= maxSize THEN Tail(cache) ELSE cache
    IN  MapSet(c1, key, value, t)

(***************************************************************************)
(* Provider answers and their conversion to the 1..5 scale                 *)
(***************************************************************************)
\* What a fetch can come back with: ok = FALSE (network error, non-ok status,
\* API status not success), or a body carrying a raw index; -1 stands for a
\* body without the index field (undefined).
RawOpenWeather == {2}             \* data.list[0].main.aqi, already 1..5
RawIQAir == {0, 300}              \* data.current.pollution.aqius, 0-500
RawWAQI == {40}                   \* data.aqi, 0-500

convertUSAQItoScale(usAqi) ==
    IF usAqi = -1 \/ usAqi = 0 \/ usAqi < 0 THEN -1     \* !usAqi || usAqi < 0
    ELSE IF usAqi <= 50 THEN 1
    ELSE IF usAqi <= 100 THEN 2
    ELSE IF usAqi <= 150 THEN 3
    ELSE IF usAqi <= 200 THEN 4
    ELSE 5

Outcomes(p) ==
    {[ok |-> FALSE, raw |-> -1]} \cup
    {[ok |-> TRUE, raw |-> r] : r \in (IF p = "openweather" THEN RawOpenWeather
                                       ELSE IF p = "iqair" THEN RawIQAir ELSE RawWAQI)}

\* The provider's result object (value, source, confidence); the error
\* object { value: -1, source, error: true } has no confidence.
ErrorResult(p) == [value |-> -1, source |-> p, confidence |-> "none"]
ProviderResult(p, raw) ==
    IF p = "openweather"
    THEN [value |-> raw, source |-> p, confidence |-> "medium"]   \* aqi ?? -1
    ELSE [value |-> convertUSAQItoScale(raw), source |-> p, confidence |-> "high"]

(***************************************************************************)
(* getAggregatedAQI after Promise.all: res maps each provider to its       *)
(* result.  Weights are in hundredths: 1.0 * (1.5 | 0.7) * (1.3 | 1.2).    *)
(***************************************************************************)
FallbackResult == [value |-> 3, source |-> "fallback", confidence |-> "low"]

ConfFactor(r) ==
    IF r.confidence = "high" THEN 15 ELSE IF r.confidence = "low" THEN 7 ELSE 10
SourceFactor(r) ==
    IF r.source = "waqi" THEN 13 ELSE IF r.source = "iqair" THEN 12 ELSE 10

\* every result weighing the same
ResultWeightUniform(r) == 100

ResultWeight(r) == ConfFactor(r) * SourceFactor(r)

\* totalWeight and weightedSum (Array.reduce) over the valid results
RECURSIVE TotalWeight(_, _)
TotalWeight(S, res) ==
    IF S = {} THEN 0
    ELSE LET x == CHOOSE y \in S : TRUE
         IN  ResultWeight(res[x]) + TotalWeight(S \ {x}, res)
RECURSIVE WeightedSum(_, _)
WeightedSum(S, res) ==
    IF S = {} THEN 0
    ELSE LET x == CHOOSE y \in S : TRUE
         IN  res[x].value * ResultWeight(res[x]) + WeightedSum(S \ {x}, res)

\* Math.round(x / y) for x >= 0, y > 0
RoundDiv(x, y) == (2 * x + y) \div (2 * y)

AggregateResultsNoFallback(res) ==
    LET valid == {p \in Providers : res[p].value > 0} IN
    IF Cardinality(valid) <= 1
    THEN res[IF valid = {} THEN "openweather" ELSE CHOOSE p \in valid : TRUE]
    ELSE [value |-> RoundDiv(WeightedSum(valid, res), TotalWeight(valid, res)),
          source |-> "aggregated", confidence |-> "high"]

\* the weighted sum left undivided by the total weight
AggregateResultsUnrounded(res) ==
    LET valid == {p \in Providers : res[p].value > 0} IN
    IF valid = {} THEN FallbackResult
    ELSE IF Cardinality(valid) = 1 THEN res[CHOOSE p \in valid : TRUE]
    ELSE [value |-> WeightedSum(valid, res) \div 100,
          source |-> "aggregated", confidence |-> "high"]

AggregateResults(res) ==
    LET valid == {p \in Providers : res[p].value > 0} IN
    IF valid = {} THEN FallbackResult
    ELSE IF Cardinality(valid) = 1 THEN res[CHOOSE p \in valid : TRUE]
    ELSE [value |-> RoundDiv(WeightedSum(valid, res), TotalWeight(valid, res)),
          source |-> "aggregated", confidence |-> "high"]

(***************************************************************************)
(* The getAQI calls.  A slot l holds one call:                             *)
(*   pc     "idle" | "fetching" (awaiting Promise.all) | "aggregated"      *)
(*          (getAggregatedAQI returned, getAQI not yet resumed) | "done"   *)
(*   prov   per provider: "none", "pending" (fetch issued), "hung" (the    *)
(*          fetch never settles), "settled" with res                       *)
(*   agg    what getAggregatedAQI returned; allBad: no provider result of  *)
(*          this call had value > 0                                        *)
(*   ret    what getAQI returned                                           *)
(*   net    the providers this call issued a network fetch to              *)
(*   expect history: the value last stored for the call's tile, when it    *)
(*          was stored less than TILE_TTL_MS before the call; present:     *)
(*          the tile's key was in aqiCache when the call was made          *)
(***************************************************************************)
Lookups == 1..MaxLookups
Tiles == {getTileKey(c) : c \in Coords}

IdleProv == [p \in Providers |-> [st |-> "none", res |-> None]]
IdleLookup ==
    [pc |-> "idle", coord |-> None, force |-> FALSE, prov |-> IdleProv,
     agg |-> None, allBad |-> FALSE, ret |-> None, net |-> {},
     expect |-> None, present |-> FALSE]


\* The tile of a coordinate (tileSize = 0.02 deg), and the value last stored
\* for it by a completed lookup less than 30 minutes ago.
TileOf(c) == getTileKey(c)
FreshStore(tile) ==
    IF CacheHas(aqiCache, tile)
    THEN LET e == aqiCache[CacheIdx(aqiCache, tile)] IN
         IF now - e.timestamp < TILE_TTL_MS THEN e.value ELSE None
    ELSE IF evicted[tile] # None /\ now - evicted[tile].timestamp < TILE_TTL_MS
         THEN evicted[tile].value
         ELSE None

\* getOpenWeatherAQI / getIQAirAQI / getWAQIData up to the first await:
\* the provider cache is read (an expired entry is deleted by the read);
\* on a miss the fetch is issued.
ProviderGet(p, key) == SimpleCacheGet(srcCache[p], key, TILE_TTL_MS, now)

\* getAQI up to its first await
Start(l, c, force) ==
    /\ lk[l].pc = "idle"
    /\ \A k \in Lookups : k < l => lk[k].pc # "idle"    \* slots are taken in order
    /\ LET key == getTileKey(c)
           got == IF force THEN [cache |-> aqiCache, hit |-> FALSE, value |-> None]
                  ELSE SimpleCacheGet(aqiCache, key, TILE_TTL_MS, now)
           base == [IdleLookup EXCEPT !.coord = c, !.force = force,
                                      !.expect = IF force THEN None ELSE FreshStore(TileOf(c)),
                                      !.present = ~force /\ CacheHas(aqiCache, TileOf(c))]
       IN  /\ aqiCache' = got.cache
           /\ IF got.hit
              THEN /\ lk' = [lk EXCEPT ![l] = [base EXCEPT !.pc = "done", !.ret = got.value]]
                   /\ srcCache' = srcCache
              ELSE LET pg == [p \in Providers |-> ProviderGet(p, key)] IN
                   /\ srcCache' = [p \in Providers |-> pg[p].cache]
                   /\ lk' = [lk EXCEPT ![l] =
                        [base EXCEPT !.pc = "fetching",
                           !.prov = [p \in Providers |->
                                       IF pg[p].hit
                                       THEN [st |-> "settled", res |-> pg[p].value]
                                       ELSE [st |-> "pending", res |-> None]],
                           !.net = {p \in Providers : ~pg[p].hit}]]
    /\ UNCHANGED <<now, evicted>>
    /\ UNCHANGED rvars

\* A fetch settles and the provider function runs to its return: a body is
\* converted, cached under the tile key and returned; a failure returns the
\* error object and caches nothing.
Respond(l, p, outcome) ==
    /\ lk[l].pc = "fetching"
    /\ lk[l].prov[p].st = "pending"
    /\ LET key == getTileKey(lk[l].coord)
           r == IF ~outcome.ok THEN ErrorResult(p) ELSE ProviderResult(p, outcome.raw)
       IN  /\ lk' = [lk EXCEPT ![l].prov[p] = [st |-> "settled", res |-> r]]
           /\ srcCache' = IF ~outcome.ok THEN srcCache
                          ELSE [srcCache EXCEPT ![p] =
                                  SimpleCacheSet(srcCache[p], SrcCacheMax, key, r, now)]
    /\ UNCHANGED <<now, aqiCache, evicted>>
    /\ UNCHANGED rvars

\* The provider never answers: fetch() is called without a timeout or an
\* abort signal, so its promise stays pending.
Hang(l, p) ==
    /\ lk[l].pc = "fetching"
    /\ lk[l].prov[p].st = "pending"
    /\ \A q \in Providers : lk[l].prov[q].st # "hung"     \* one provider is enough
    /\ lk' = [lk EXCEPT ![l].prov[p].st = "hung"]
    /\ UNCHANGED <<now, aqiCache, srcCache, evicted>>
    /\ UNCHANGED rvars

\* aggregation as soon as one provider promise has resolved, the others
\* counted as failed
AggregateOnFirstSettled(l) ==
    /\ lk[l].pc = "fetching"
    /\ \E p \in Providers : lk[l].prov[p].st = "settled"
    /\ LET res == [p \in Providers |->
                     IF lk[l].prov[p].st = "settled" THEN lk[l].prov[p].res
                     ELSE ErrorResult(p)] IN
       lk' = [lk EXCEPT ![l].pc = "aggregated",
                        ![l].agg = AggregateResults(res),
                        ![l].allBad = \A p \in Providers : res[p].value <= 0]
    /\ UNCHANGED <<now, aqiCache, srcCache, evicted>>
    /\ UNCHANGED rvars

\* Promise.all resolves once all three provider promises have: aggregation
Aggregate(l) ==
    /\ lk[l].pc = "fetching"
    /\ \A p \in Providers : lk[l].prov[p].st = "settled"
    /\ LET res == [p \in Providers |-> lk[l].prov[p].res] IN
       lk' = [lk EXCEPT ![l].pc = "aggregated",
                        ![l].agg = AggregateResults(res),
                        ![l].allBad = \A p \in Providers : res[p].value <= 0]
    /\ UNCHANGED <<now, aqiCache, srcCache, evicted>>
    /\ UNCHANGED rvars

\* getAQI resumes: this.aqiCache.set(cacheKey, aqiData); return aqiData
Store(l) ==
    /\ lk[l].pc = "aggregated"
    /\ LET key == getTileKey(lk[l].coord) IN
       /\ aqiCache' = SimpleCacheSet(aqiCache, AqiCacheMax, key, lk[l].agg, now)
       /\ evicted' = [t \in Tiles |->
                        IF t = key THEN None
                        ELSE IF CacheHas(aqiCache, t) /\ ~CacheHas(aqiCache', t)
                             THEN LET e == aqiCache[CacheIdx(aqiCache, t)]
                                  IN  [value |-> e.value, timestamp |-> e.timestamp]
                             ELSE evicted[t]]
    /\ lk' = [lk EXCEPT ![l].pc = "done", ![l].ret = lk[l].agg, ![l].prov = IdleProv]
    /\ UNCHANGED <<now, srcCache>>
    /\ UNCHANGED rvars

\* The caller has the result; the slot is free for the next call
Return(l) ==
    /\ lk[l].pc = "done"
    /\ lk' = [lk EXCEPT ![l] = IdleLookup]
    /\ UNCHANGED <<now, aqiCache, srcCache, evicted>>
    /\ UNCHANGED rvars

\* A continuation that is ready to run: Promise.all has resolved, or
\* getAggregatedAQI has returned.  It runs as a microtask, before the clock
\* can advance by a whole TickMs.
Ready(l) ==
    \/ lk[l].pc = "aggregated"
    \/ lk[l].pc = "fetching" /\ \A p \in Providers : lk[l].prov[p].st = "settled"

Tick ==
    /\ now < MaxTicks * TickMs
    /\ \A l \in Lookups : ~Ready(l)
    /\ now' = now + TickMs
    /\ evicted' = [t \in Tiles |->
                     IF evicted[t] # None /\ now' - evicted[t].timestamp < TILE_TTL_MS
                     THEN evicted[t] ELSE None]
    /\ UNCHANGED <<aqiCache, srcCache, lk>>
    /\ UNCHANGED rvars

(***************************************************************************)
(* GraphRoutingService                                                     *)
(*                                                                         *)
(* Scaled integers.  A distance is in whole metres.  An exposure dose is   *)
(* kept as X = aqi * metres * cf * pm with cf in hundredths (110, 95, 100) *)
(* and pm in tenths (12, 10):                                              *)
(*     exposureDose = aqi * (metres / 13.89 / 60) * cf * pm = X / 833400   *)
(* A composite edge weight is kept as W with weights in fifths:            *)
(*     exposure / 10 * aqiW + metres / 1000 * distW                        *)
(*         = (X * aqiW5 + 8334 * metres * distW5) / 41670000               *)
(* and a ranking score with the preference weights in tenths:              *)
(*     exposure * aqiWeight + metres * distanceWeight / 1000               *)
(*         = (5 * X * aqiW10 + 4167 * metres * distW10) / 41670000         *)
(***************************************************************************)
AQI_CACHE_MAX == 500              \* new SimpleCache(500, TILE_TTL_MS)
G_AQI_TTL_MS == 30 * 60 * 1000    \* getAQIWithCache: "Cache for 30 minutes"
HighAQIPenalty == 10
ExposureFloor == 83340            \* Math.max(exposureDose, 0.1)
WeightFloor == 41670              \* Math.max(compositeWeight, 0.001)
DistanceUnit == 8334              \* one metre of normalizedDistance * distW5
PrefAqiW10 == 7                   \* preferences.aqiWeight = 0.7
PrefDistW10 == 3                  \* preferences.distanceWeight = 0.3
MaxAlternatives == 5

Max(a, b) == IF a >= b THEN a ELSE b
Abs(a) == IF a >= 0 THEN a ELSE 0 - a

Pt(lat, lng) == [lat |-> lat, lng |-> lng]

\* Number.toFixed(5) and toFixed(3) of a coordinate >= 0, as the count of
\* 1e-5 and of 1e-3 degrees (round half up; the inputs have no halves)
toFixed5(x) == (x + 5) \div 10
toFixed3(x) == (x + 500) \div 1000
coordKey(c) == <<toFixed5(c.lat), toFixed5(c.lng)>>

RECURSIVE ISqrtFrom(_, _)
ISqrtFrom(n, x) ==
    LET y == (x + n \div x) \div 2 IN IF y >= x THEN x ELSE ISqrtFrom(n, y)
\* floor of the square root
ISqrt(n) == IF n = 0 THEN 0 ELSE ISqrtFrom(n, n)

\* Haversine distance in whole metres.  The coordinates lie within 0.04 deg
\* of the equator and of each other, where R * c is the Euclidean length of
\* (dlat, dlng) times 6371000 * pi / 180 = 111195 m per degree to within a
\* centimetre: 0.1112 m per micro-degree.
calculateDistance(c1, c2) ==
    LET dlat == c2.lat - c1.lat
        dlng == c2.lng - c1.lng
    IN  (ISqrt(dlat * dlat + dlng * dlng) * 1112) \div 10000

SeqHas(s, x) == \E i \in 1..Len(s) : s[i] = x
SeqIndex(s, x) == CHOOSE i \in 1..Len(s) : s[i] = x

RECURSIVE AllCoordinates(_)
AllCoordinates(routes) ==
    IF routes = <<>> THEN <<>> ELSE Head(routes) \o AllCoordinates(Tail(routes))

RouteSegments(coords) == [i \in 1..(Len(coords) - 1) |-> <<coords[i], coords[i + 1]>>]
RECURSIVE AllSegments(_)
AllSegments(routes) ==
    IF routes = <<>> THEN <<>>
    ELSE RouteSegments(Head(routes)) \o AllSegments(Tail(routes))

\* first forEach of buildRoadGraph: a node per distinct toFixed(5) key, its
\* position the first coordinate with that key
RECURSIVE CreateNodes(_, _)
CreateNodes(coords, acc) ==
    IF coords = <<>> THEN acc
    ELSE LET c == Head(coords)
             k == coordKey(c)
         IN  CreateNodes(Tail(coords),
                 IF SeqHas(acc.keys, k) THEN acc
                 ELSE [keys |-> Append(acc.keys, k),
                       positions |-> Append(acc.positions, c)])

\* Map.set on a neighbour Map and on edgeWeights
NeighborHas(row, to) == \E i \in 1..Len(row) : row[i].to = to
NeighborSet(row, to, d) ==
    IF NeighborHas(row, to)
    THEN [row EXCEPT ![CHOOSE i \in 1..Len(row) : row[i].to = to] = [to |-> to, distance |-> d]]
    ELSE Append(row, [to |-> to, distance |-> d])
EdgeHas(ew, key) == \E i \in 1..Len(ew) : ew[i].key = key
EdgeGet(ew, key) == ew[CHOOSE i \in 1..Len(ew) : ew[i].key = key]
EdgeSet(ew, key, d, mid) ==
    LET e == [key |-> key, distance |-> d, midpoint |-> mid] IN
    IF EdgeHas(ew, key)
    THEN [ew EXCEPT ![CHOOSE i \in 1..Len(ew) : ew[i].key = key] = e]
    ELSE Append(ew, e)

\* second forEach of buildRoadGraph: both directions of every segment.
\* Coordinates are even, so the midpoint is exact.
RECURSIVE CreateEdges(_, _, _)
CreateEdges(segs, keys, g) ==
    IF segs = <<>> THEN g
    ELSE LET c1 == Head(segs)[1]
             c2 == Head(segs)[2]
             n1 == SeqIndex(keys, coordKey(c1)) - 1
             n2 == SeqIndex(keys, coordKey(c2)) - 1
             d == calculateDistance(c1, c2)
             mid == Pt((c1.lat + c2.lat) \div 2, (c1.lng + c2.lng) \div 2)
             rg1 == [g.roadGraph EXCEPT ![n1 + 1] = NeighborSet(@, n2, d)]
             rg2 == [rg1 EXCEPT ![n2 + 1] = NeighborSet(@, n1, d)]
             ew1 == EdgeSet(g.edgeWeights, <<n1, n2>>, d, mid)
             ew2 == EdgeSet(ew1, <<n2, n1>>, d, mid)
         IN  CreateEdges(Tail(segs), keys,
                         [roadGraph |-> rg2, edgeWeights |-> ew2])

\* buildRoadGraph that forgets this.edgeWeights.clear()
buildRoadGraphKeepEdges(prev, routes) ==
    LET nodes == CreateNodes(AllCoordinates(routes), [keys |-> <<>>, positions |-> <<>>])
        g == CreateEdges(AllSegments(routes), nodes.keys,
                         [roadGraph |-> [i \in 1..Len(nodes.keys) |-> <<>>],
                          edgeWeights |-> prev.edgeWeights])
    IN  [roadGraph |-> g.roadGraph, nodePositions |-> nodes.positions,
         edgeWeights |-> g.edgeWeights,
         stats |-> [nodes |-> Len(nodes.keys), edges2 |-> Len(g.edgeWeights)]]

\* buildRoadGraph(routes) on a service whose maps hold prev: the three maps
\* are cleared first.  stats.edges2 is edgeWeights.size, twice the "edges"
\* the method returns (an odd size gives a fractional count).
buildRoadGraph(prev, routes) ==
    LET nodes == CreateNodes(AllCoordinates(routes), [keys |-> <<>>, positions |-> <<>>])
        g == CreateEdges(AllSegments(routes), nodes.keys,
                         [roadGraph |-> [i \in 1..Len(nodes.keys) |-> <<>>],
                          edgeWeights |-> <<>>])
    IN  [roadGraph |-> g.roadGraph, nodePositions |-> nodes.positions,
         edgeWeights |-> g.edgeWeights,
         stats |-> [nodes |-> Len(nodes.keys), edges2 |-> Len(g.edgeWeights)]]

\* findNearestNode: the first node at the least distance; -1 for null
findNearestNode(positions, target) ==
    IF positions = <<>> THEN -1
    ELSE LET D(i) == calculateDistance(target, positions[i])
             best == CHOOSE i \in 1..Len(positions) :
                        \A j \in 1..Len(positions) :
                            D(i) < D(j) \/ (D(i) = D(j) /\ i <= j)
         IN  best - 1

(***************************************************************************)
(* The exposure estimator as the router sees it: AQIService.getAQI on the  *)
(* tile cache (aqiCache), the fetch and the aggregation replaced by the    *)
(* aqiData they return.  pm25 is components.pm2_5 in ug/m3, 0 when absent. *)
(***************************************************************************)
Clean == [value |-> 1, source |-> "aggregated", confidence |-> "high", pm25 |-> 8]
Moderate == [value |-> 3, source |-> "fallback", confidence |-> "low", pm25 |-> 0]
Hazardous == [value |-> 5, source |-> "aggregated", confidence |-> "high", pm25 |-> 60]

\* the tiles of the edge midpoints, and the air over them
RTiles == {<<0, 0>>, <<1, 0>>}
AirOf(a, b) == [t \in RTiles |-> IF t = <<0, 0>> THEN a ELSE b]
AirStates == {AirOf(Moderate, Clean), AirOf(Hazardous, Clean), AirOf(Moderate, Hazardous)}

\* getAQI(lat, lng): ans[tile] is what the providers' aggregation would
\* return for the tile at this moment
ServiceReturn(got, key, t, ans) ==
    IF got.hit
    THEN [cache |-> got.cache, data |-> got.value]
    ELSE [cache |-> SimpleCacheSet(got.cache, AQI_CACHE_MAX, key, ans[key], t),
          data |-> ans[key]]
ServiceGetAQI(cache, c, t, ans) ==
    ServiceReturn(SimpleCacheGet(cache, getTileKey(c), TILE_TTL_MS, t), getTileKey(c), t, ans)

\* categorizePollutuantLevel(value, 'pm2_5') on whole ug/m3
categorizePollutuantLevel(value) ==
    IF value = 0 \/ value < 0 THEN 1
    ELSE IF value <= 12 THEN 1
    ELSE IF value <= 35 THEN 2
    ELSE IF value <= 55 THEN 3
    ELSE IF value <= 150 THEN 4
    ELSE 5

\* the dose without the PM2.5 penalty and without Math.max
ExposureDosePlain(aqiData, distance) ==
    LET aqi == IF aqiData.value = 0 THEN 3 ELSE aqiData.value
        cf == IF aqiData.confidence = "low" THEN 110
              ELSE IF aqiData.confidence = "high" THEN 95 ELSE 100
    IN  aqi * distance * cf * 10

\* calculateExposureDose after the await, in X units
ExposureDose(aqiData, distance) ==
    LET aqi == IF aqiData.value = 0 THEN 3 ELSE aqiData.value
        cf == IF aqiData.confidence = "low" THEN 110
              ELSE IF aqiData.confidence = "high" THEN 95 ELSE 100
        pm == IF aqiData.pm25 # 0 /\ categorizePollutuantLevel(aqiData.pm25) >= 4
              THEN 12 ELSE 10
    IN  Max(aqi * distance * cf * pm, ExposureFloor)

\* the loop "for (const [edgeKey, edgeData] of this.edgeWeights)" of
\* findParetoOptimalRoutes; acc = [cache, exposures, levels]
ExposureSet(acc, edge, got) ==
    [cache |-> got.cache,
     exposures |-> (edge.key :> ExposureDose(got.data, edge.distance)) @@ acc.exposures,
     levels |-> (edge.key :> got.data.value) @@ acc.levels]
RECURSIVE ExposureLoop(_, _, _, _, _)
ExposureLoop(ew, i, t, ans, acc) ==
    IF i > Len(ew) THEN acc
    ELSE ExposureLoop(ew, i + 1, t, ans,
             ExposureSet(acc, ew[i], ServiceGetAQI(acc.cache, ew[i].midpoint, t, ans)))

\* getAQIWithCache(lat, lng); st = [gc, ac], the two caches
AqiFetched(gc, key, got, t) ==
    [gc |-> (key :> [value |-> got.data.value, timestamp |-> t]) @@ gc,
     ac |-> got.cache,
     level |-> IF got.data.value = 0 THEN 3 ELSE got.data.value]
getAQIWithCache(st, c, t, ans) ==
    LET key == <<toFixed3(c.lat), toFixed3(c.lng)>> IN
    IF key \in DOMAIN st.gc /\ t - st.gc[key].timestamp < G_AQI_TTL_MS
    THEN [gc |-> st.gc, ac |-> st.ac, level |-> st.gc[key].value]
    ELSE AqiFetched(st.gc, key, ServiceGetAQI(st.ac, c, t, ans), t)

(***************************************************************************)
(* findSingleObjectiveRoute                                                *)
(***************************************************************************)
WeightCombinations ==
    << [aqiW5 |-> 5, distW5 |-> 0], [aqiW5 |-> 4, distW5 |-> 1],
       [aqiW5 |-> 3, distW5 |-> 2], [aqiW5 |-> 2, distW5 |-> 3],
       [aqiW5 |-> 0, distW5 |-> 5] >>

\* the unpenalised branch without Math.max
NormalWeightNoFloor(exposure, distance, wt) ==
    exposure * wt.aqiW5 + DistanceUnit * distance * wt.distW5

\* the unpenalised branch with the distance term lost
NormalWeightExposureOnly(exposure, distance, wt) ==
    Max(exposure * wt.aqiW5, WeightFloor)

\* the unpenalised branch with the exposure term lost
NormalWeightDistanceOnly(exposure, distance, wt) ==
    Max(DistanceUnit * distance * wt.distW5, WeightFloor)

\* the two assignments to weightedGraph[nodeId][neighborId], in W units
PenalisedWeight(exposure, distance, wt) ==
    Max(exposure * HighAQIPenalty * wt.aqiW5 + DistanceUnit * distance * wt.distW5,
        WeightFloor)
NormalWeight(exposure, distance, wt) ==
    Max(exposure * wt.aqiW5 + DistanceUnit * distance * wt.distW5, WeightFloor)

\* an edge over the threshold left out of the weighted graph
PutWeightDropPenalised(row, to, weight, penalised) ==
    IF penalised THEN row ELSE (to :> weight) @@ row

\* weightedGraph[nodeId][neighborId] = weight
PutWeight(row, to, weight, penalised) == (to :> weight) @@ row

\* the road graph's directed edges in the order the two nested loops visit
RECURSIVE DirectedEdges(_, _)
DirectedEdges(rg, n) ==
    IF n >= Len(rg) THEN <<>>
    ELSE [j \in 1..Len(rg[n + 1]) |->
            [from |-> n, to |-> rg[n + 1][j].to, distance |-> rg[n + 1][j].distance]]
         \o DirectedEdges(rg, n + 1)

\* the inner loop penalising every edge at or over the threshold, 5 included
WeightSetAtOrOver(acc, e, exposure, got, has, wt, thr) ==
    [gc |-> got.gc, ac |-> got.ac,
     wg |-> [acc.wg EXCEPT ![e.from] =
                PutWeight(@, e.to,
                          IF has /\ got.level >= thr
                          THEN PenalisedWeight(exposure, e.distance, wt)
                          ELSE NormalWeight(exposure, e.distance, wt),
                          has /\ got.level >= thr)],
     levels |-> (<<e.from, e.to>> :> got.level) @@ acc.levels]

\* one turn of the inner loop: got is what getAQIWithCache returned for the
\* edge (level 0 when the edge has no edgeData and no AQI is read)
WeightSet(acc, e, exposure, got, has, wt, thr) ==
    [gc |-> got.gc, ac |-> got.ac,
     wg |-> [acc.wg EXCEPT ![e.from] =
                PutWeight(@, e.to,
                          IF has /\ thr < 5 /\ got.level > thr
                          THEN PenalisedWeight(exposure, e.distance, wt)
                          ELSE NormalWeight(exposure, e.distance, wt),
                          has /\ thr < 5 /\ got.level > thr)],
     levels |-> (<<e.from, e.to>> :> got.level) @@ acc.levels]

\* the loops that fill weightedGraph; acc = [gc, ac, wg, levels]
RECURSIVE WeightLoop(_, _, _, _, _, _, _, _)
WeightLoop(edges, ew, exposures, wt, thr, t, ans, acc) ==
    IF edges = <<>> THEN acc
    ELSE LET e == Head(edges)
             key == <<e.from, e.to>>
         IN  WeightLoop(Tail(edges), ew, exposures, wt, thr, t, ans,
                 WeightSet(acc, e,
                           IF key \in DOMAIN exposures THEN exposures[key] ELSE 0,
                           IF EdgeHas(ew, key)
                           THEN getAQIWithCache([gc |-> acc.gc, ac |-> acc.ac],
                                                EdgeGet(ew, key).midpoint, t, ans)
                           ELSE [gc |-> acc.gc, ac |-> acc.ac, level |-> 0],
                           EdgeHas(ew, key), wt, thr))

(***************************************************************************)
(* dijkstrajs (the package imported as 'dijkstrajs'): find_path =          *)
(* single_source_shortest_paths + extract_shortest_path_from_predecessor_  *)
(* list.  The open list is a queue kept sorted by cost with a stable sort  *)
(* after each push; a node's neighbours are the keys of a plain object     *)
(* with integer names, which JavaScript enumerates in ascending order.     *)
(***************************************************************************)
RECURSIVE SortedSeqOf(_)
SortedSeqOf(S) ==
    IF S = {} THEN <<>>
    ELSE LET m == CHOOSE x \in S : \A y \in S : x <= y
         IN  <<m>> \o SortedSeqOf(S \ {m})

\* PriorityQueue.push: after the entries of cost <= c
QueuePush(q, v, c) ==
    LET k == Cardinality({i \in 1..Len(q) : q[i].cost <= c})
    IN  SubSeq(q, 1, k) \o <<[value |-> v, cost |-> c]>> \o SubSeq(q, k + 1, Len(q))

RECURSIVE RelaxNeighbors(_, _, _, _, _)
RelaxNeighbors(wg, u, costU, vs, st) ==
    IF vs = <<>> THEN st
    ELSE LET v == Head(vs)
             alt == costU + wg[u][v]
             better == v \notin DOMAIN st.costs \/ st.costs[v] > alt
         IN  RelaxNeighbors(wg, u, costU, Tail(vs),
                 IF better
                 THEN [costs |-> (v :> alt) @@ st.costs,
                       open |-> QueuePush(st.open, v, alt),
                       predecessors |-> (v :> u) @@ st.predecessors]
                 ELSE st)

RECURSIVE ShortestPathsLoop(_, _)
ShortestPathsLoop(wg, st) ==
    IF st.open = <<>> THEN st
    ELSE LET closest == Head(st.open)
             u == closest.value
             adjacent == IF u \in DOMAIN wg THEN SortedSeqOf(DOMAIN wg[u]) ELSE <<>>
         IN  ShortestPathsLoop(wg,
                 RelaxNeighbors(wg, u, closest.cost, adjacent,
                                [st EXCEPT !.open = Tail(@)]))

single_source_shortest_paths(wg, s) ==
    ShortestPathsLoop(wg, [costs |-> (s :> 0),
                           open |-> <<[value |-> s, cost |-> 0]>>,
                           predecessors |-> <<>>])

RECURSIVE extract_shortest_path(_, _)
extract_shortest_path(predecessors, u) ==
    IF u \in DOMAIN predecessors
    THEN Append(extract_shortest_path(predecessors, predecessors[u]), u)
    ELSE <<u>>

\* find_path throws when the destination was not reached
PathFrom(st, d) ==
    IF d \notin DOMAIN st.costs
    THEN [thrown |-> TRUE, path |-> <<>>]
    ELSE [thrown |-> FALSE, path |-> extract_shortest_path(st.predecessors, d)]
find_path(wg, s, d) == PathFrom(single_source_shortest_paths(wg, s), d)

\* the loop over the path's edges: the totals over the edges that are in
\* edgeWeights
RECURSIVE PathDistance(_, _)
PathDistance(path, ew) ==
    IF Len(path) < 2 THEN 0
    ELSE LET key == <<path[1], path[2]>>
         IN  (IF EdgeHas(ew, key) THEN EdgeGet(ew, key).distance ELSE 0)
                 + PathDistance(Tail(path), ew)
RECURSIVE PathExposure(_, _, _)
PathExposure(path, ew, exposures) ==
    IF Len(path) < 2 THEN 0
    ELSE LET key == <<path[1], path[2]>>
         IN  (IF EdgeHas(ew, key) /\ key \in DOMAIN exposures THEN exposures[key] ELSE 0)
                 + PathExposure(Tail(path), ew, exposures)

\* the part of findSingleObjectiveRoute after find_path; status: "route",
\* "null" (a path of fewer than 2 nodes) or "throw" (find_path threw)
RouteMetrics(built, found, ew, exposures) ==
    IF found.thrown \/ Len(found.path) < 2
    THEN [gc |-> built.gc, ac |-> built.ac, wg |-> built.wg, levels |-> built.levels,
          status |-> IF found.thrown THEN "throw" ELSE "null", path |-> <<>>,
          totalDistance |-> 0, totalExposure |-> 0]
    ELSE [gc |-> built.gc, ac |-> built.ac, wg |-> built.wg, levels |-> built.levels,
          status |-> "route", path |-> found.path,
          totalDistance |-> PathDistance(found.path, ew),
          totalExposure |-> PathExposure(found.path, ew, exposures)]
SolveWeighted(built, ew, s, d, exposures) ==
    RouteMetrics(built, find_path(built.wg, s, d), ew, exposures)

\* findSingleObjectiveRoute(s, d, wt, exposures, thr) at time t on the graph
\* (rg, ew) and the caches st = [gc, ac]
findSingleObjectiveRoute(rg, ew, st, s, d, wt, exposures, thr, t, ans) ==
    SolveWeighted(WeightLoop(DirectedEdges(rg, 0), ew, exposures, wt, thr, t, ans,
                             [gc |-> st.gc, ac |-> st.ac,
                              wg |-> [n \in 0..(Len(rg) - 1) |-> <<>>],
                              levels |-> <<>>]),
                  ew, s, d, exposures)

\* the filter finding no existing route: every solver result is kept
isDominatedRouteNever(newRoute, existing) == FALSE

\* isDominatedRoute: |dd| / max < 0.05 and |de| / max < 0.05 for some
\* existing route (0 / 0 is NaN, and NaN < 0.05 is false)
isDominatedRoute(newRoute, existing) ==
    \E i \in 1..Len(existing) :
        /\ 20 * Abs(existing[i].totalDistance - newRoute.totalDistance)
              < Max(existing[i].totalDistance, newRoute.totalDistance)
        /\ 20 * Abs(existing[i].totalExposure - newRoute.totalExposure)
              < Max(existing[i].totalExposure, newRoute.totalExposure)

\* the comparator of paretoRoutes.sort
Score(r) == 5 * r.totalExposure * PrefAqiW10 + 4167 * r.totalDistance * PrefDistW10

\* Array.prototype.sort is stable: insertion after the entries of score <=
RECURSIVE SortByScore(_)
SortByScore(routes) ==
    IF routes = <<>> THEN <<>>
    ELSE LET rest == SortByScore(SubSeq(routes, 1, Len(routes) - 1))
             r == routes[Len(routes)]
             k == Cardinality({i \in 1..Len(rest) : Score(rest[i]) <= Score(r)})
         IN  SubSeq(rest, 1, k) \o <<r>> \o SubSeq(rest, k + 1, Len(rest))

(***************************************************************************)
(* The inputs of the routing requests                                      *)
(***************************************************************************)
\* Baseline route sets (OSRM alternatives), even micro-degrees.
\*   1: a direct road S-T of 200 m inside tile <<0,0>> and a detour S-M-T
\*      of 369 m + 369 m whose two edges have their midpoints in tile <<1,0>>
\*   2: a direct segment of 10 m and a detour of 5 m + 5 m, in tile <<0,0>>
\*   3: a route whose two points share one toFixed(5) key: one node, a
\*      self-loop of 0 m, start = end
RouteSets ==
    << << <<Pt(19000, 2100), Pt(19000, 3900)>>,
          <<Pt(19000, 2100), Pt(22200, 3000), Pt(19000, 3900)>> >>,
       << <<Pt(18990, 2950), Pt(18990, 3040)>>,
          <<Pt(18990, 2950), Pt(19010, 2996), Pt(18990, 3040)>> >>,
       << <<Pt(19000, 3000), Pt(19002, 3002)>> >> >>

\* maxAQIThreshold: below 5 avoidance is active, 5 is no threshold filtering.
\* With the AQI levels 1, 3 and 5 of the model the thresholds 1 and 3 select
\* the edges that 2 and 4 select.
Thresholds == {2, 4, 5}

\* The 3-node graph A = 0, B = 1, C = 2 with A-B 400 m, B-C 400 m and
\* A-C 1000 m, as a test installs it in the service's maps; the midpoint of
\* A-C is in tile <<0,0>>, those of A-B and B-C in tile <<1,0>>.
ScenarioGraph ==
    [roadGraph |->
        << << [to |-> 1, distance |-> 400], [to |-> 2, distance |-> 1000] >>,
           << [to |-> 0, distance |-> 400], [to |-> 2, distance |-> 400] >>,
           << [to |-> 1, distance |-> 400], [to |-> 0, distance |-> 1000] >> >>,
     nodePositions |-> << Pt(19000, 2100), Pt(22200, 3000), Pt(19000, 3900) >>,
     edgeWeights |->
        << [key |-> <<0, 1>>, distance |-> 400, midpoint |-> Pt(20600, 2550)],
           [key |-> <<1, 0>>, distance |-> 400, midpoint |-> Pt(20600, 2550)],
           [key |-> <<1, 2>>, distance |-> 400, midpoint |-> Pt(20600, 3450)],
           [key |-> <<2, 1>>, distance |-> 400, midpoint |-> Pt(20600, 3450)],
           [key |-> <<0, 2>>, distance |-> 1000, midpoint |-> Pt(19000, 3000)],
           [key |-> <<2, 0>>, distance |-> 1000, midpoint |-> Pt(19000, 3000)] >>]

(***************************************************************************)
(* A routing request.                                                      *)
(*   pc        "idle" | "exposure" (graph built, before the exposure loop) *)
(*             | "sweep" (before the solver call for weight pair w)        *)
(*             | "rank" (before the sort) | "done" | "failed"              *)
(*   entry     "routes" (findOptimalRoutes on route set rs) or "scenario"  *)
(*             (findParetoOptimalRoutes on the installed graph)            *)
(*   exposures edgeExposures; expLevel: the AQI level behind each          *)
(*   run       the last solver call: weighted graph, AQI levels read,      *)
(*             status, path, totals, time; runs: status, path, totals and  *)
(*             levels of every call of the sweep                           *)
(*   pareto    paretoRoutes; result: what the request returned             *)
(*   rerun     a further call of the solver with the request's arguments   *)
(*   again     history: the route set is the one of the first build; over: *)
(*             the build replaced the graph of other routes                *)
(***************************************************************************)
IdleRequest ==
    [pc |-> "idle", entry |-> "none", rs |-> 0, thr |-> 5, s |-> -1, e |-> -1,
     stats |-> None, again |-> FALSE, over |-> FALSE, exposures |-> <<>>, expLevel |-> <<>>, w |-> 0,
     run |-> None, runs |-> <<>>, pareto |-> <<>>, result |-> <<>>, rerun |-> None]

RouteIds == 1..Len(RouteSets)

\* no second call of the wrapper, nothing handed on yet
IdleUi == [other |-> None, superseded |-> FALSE, otherSuperseded |-> FALSE,
           prefs |-> None, last |-> None]

\* The services after construction: empty caches, empty graph maps, no call
\* in progress.
Init ==
    /\ now = 0
    /\ aqiCache = <<>>
    /\ srcCache = [p \in Providers |-> <<>>]
    /\ lk = [l \in Lookups |-> IdleLookup]
    /\ evicted = [t \in Tiles |-> None]
    /\ roadGraph = <<>>
    /\ nodePositions = <<>>
    /\ edgeWeights = <<>>
    /\ gAqiCache = <<>>
    /\ air = AirOf(Moderate, Clean)
    /\ rq = IdleRequest
    /\ hist = [n |-> 0, first |-> None]
    /\ ui = IdleUi
    /\ fx = None

\* the null test left out: the call goes on without its end nodes
NoNearestNodeIgnored(s, e) == FALSE

\* "if (startNodeId === null || endNodeId === null) throw new Error(...)",
\* rethrown by the catch of findOptimalRoutes
NoNearestNode(s, e) == s = -1 \/ e = -1

\* findOptimalRoutes(startCoord, endCoord, existingRoutes, preferences) up to
\* its await; start and end are the first route's first and last point
GraphBuilt(r, thr, g, s, e) ==
    /\ roadGraph' = g.roadGraph
    /\ nodePositions' = g.nodePositions
    /\ edgeWeights' = g.edgeWeights
    /\ rq' = [IdleRequest EXCEPT
                 !.pc = IF NoNearestNode(s, e) THEN "failed" ELSE "exposure",
                 !.entry = "routes", !.rs = r, !.thr = thr, !.s = s, !.e = e,
                 !.stats = g.stats,
                 !.again = hist.first # None /\ hist.first.rs = r,
                 !.over = edgeWeights # <<>> /\ edgeWeights # g.edgeWeights]
    /\ hist' = [n |-> hist.n + 1,
                first |-> IF hist.first = None THEN [rs |-> r, stats |-> g.stats]
                          ELSE hist.first]
NearestNodes(r, thr, g, first) ==
    GraphBuilt(r, thr, g, findNearestNode(g.nodePositions, first[1]),
               findNearestNode(g.nodePositions, first[Len(first)]))
FindOptimalRoutes(r, thr) ==
    /\ rq.pc = "idle"
    /\ hist.n < MaxRequests
    /\ NearestNodes(r, thr,
                    buildRoadGraph([roadGraph |-> roadGraph, nodePositions |-> nodePositions,
                                    edgeWeights |-> edgeWeights], RouteSets[r]),
                    RouteSets[r][1])
    /\ UNCHANGED <<now, aqiCache, srcCache, lk, evicted, gAqiCache, air>>
    /\ UNCHANGED xvars

\* a test installs the 3-node graph and calls findParetoOptimalRoutes(A, C)
LoadScenario(thr) ==
    /\ rq.pc = "idle"
    /\ hist.n < MaxRequests
    /\ hist' = [hist EXCEPT !.n = @ + 1]
    /\ roadGraph' = ScenarioGraph.roadGraph
    /\ nodePositions' = ScenarioGraph.nodePositions
    /\ edgeWeights' = ScenarioGraph.edgeWeights
    /\ rq' = [IdleRequest EXCEPT !.pc = "exposure", !.entry = "scenario",
                                 !.thr = thr, !.s = 0, !.e = 2]
    /\ UNCHANGED <<now, aqiCache, srcCache, lk, evicted, gAqiCache, air>>
    /\ UNCHANGED xvars

\* "Pre-calculate exposure doses for all edges"
ExposureDone(out) ==
    /\ aqiCache' = out.cache
    /\ rq' = [rq EXCEPT !.pc = "sweep", !.w = 1,
                        !.exposures = out.exposures, !.expLevel = out.levels]
ExposurePhase ==
    /\ rq.pc = "exposure"
    /\ ExposureDone(ExposureLoop(edgeWeights, 1, now, air,
                        [cache |-> aqiCache, exposures |-> <<>>, levels |-> <<>>]))
    /\ UNCHANGED <<now, srcCache, lk, evicted, roadGraph, nodePositions, edgeWeights,
                   gAqiCache, air, hist, xvars>>

RouteOf(out, w) ==
    [path |-> out.path, totalDistance |-> out.totalDistance,
     totalExposure |-> out.totalExposure, w |-> w]
RunOf(out) ==
    [status |-> out.status, path |-> out.path, totalDistance |-> out.totalDistance,
     totalExposure |-> out.totalExposure, levels |-> out.levels]

\* a failing combination throwing away what the sweep has kept
SweepKeepAbortOnFailure(pareto, out, w) ==
    IF out.status # "route" THEN <<>>
    ELSE IF ~isDominatedRoute(RouteOf(out, w), pareto)
         THEN Append(pareto, RouteOf(out, w)) ELSE pareto

\* the body of the sweep's try: "if (route && !this.isDominatedRoute(route,
\* paretoRoutes)) paretoRoutes.push(route)"; a throw is caught and logged
SweepKeep(pareto, out, w) ==
    IF out.status = "route" /\ ~isDominatedRoute(RouteOf(out, w), pareto)
    THEN Append(pareto, RouteOf(out, w)) ELSE pareto

\* one turn of "for (const weights of weightCombinations)": out is what
\* findSingleObjectiveRoute returned (or that it threw)
SweepTurn(out) ==
    /\ gAqiCache' = out.gc
    /\ aqiCache' = out.ac
    /\ rq' = [rq EXCEPT
                 !.run = [w |-> rq.w, wg |-> out.wg, at |-> now] @@ RunOf(out),
                 !.runs = Append(@, RunOf(out)),
                 !.pareto = SweepKeep(@, out, rq.w),
                 !.w = IF rq.w < Len(WeightCombinations) THEN rq.w + 1 ELSE 0,
                 !.pc = IF rq.w < Len(WeightCombinations) THEN "sweep" ELSE "rank"]
SweepStep ==
    /\ rq.pc = "sweep"
    /\ SweepTurn(findSingleObjectiveRoute(roadGraph, edgeWeights,
                     [gc |-> gAqiCache, ac |-> aqiCache], rq.s, rq.e,
                     WeightCombinations[rq.w], rq.exposures, rq.thr, now, air))
    /\ UNCHANGED <<now, srcCache, lk, evicted, roadGraph, nodePositions, edgeWeights,
                   air, hist, xvars>>

\* sort, slice(0, maxAlternatives), return
Finish ==
    /\ rq.pc = "rank"
    /\ LET sorted == SortByScore(rq.pareto) IN
       rq' = [rq EXCEPT !.pc = "done",
                        !.result = SubSeq(sorted, 1, IF Len(sorted) < MaxAlternatives
                                                     THEN Len(sorted) ELSE MaxAlternatives)]
    /\ UNCHANGED <<now, aqiCache, srcCache, lk, evicted, roadGraph, nodePositions,
                   edgeWeights, gAqiCache, air, hist, xvars>>

\* the solver called once more with the arguments of the request's call w
RerunTurn(w, out) ==
    /\ gAqiCache' = out.gc
    /\ aqiCache' = out.ac
    /\ rq' = [rq EXCEPT !.rerun = [w |-> w, at |-> now] @@ RunOf(out)]
Rerun(w) ==
    /\ rq.pc = "done"
    /\ rq.rerun = None
    /\ RerunTurn(w, findSingleObjectiveRoute(roadGraph, edgeWeights,
                        [gc |-> gAqiCache, ac |-> aqiCache], rq.s, rq.e,
                        WeightCombinations[w], rq.exposures, rq.thr, now, air))
    /\ UNCHANGED <<now, srcCache, lk, evicted, roadGraph, nodePositions, edgeWeights,
                   air, hist, xvars>>

\* the caller has the result
Reset ==
    /\ rq.pc \in {"done", "failed"}
    /\ rq' = IdleRequest
    /\ UNCHANGED <<now, aqiCache, srcCache, lk, evicted, roadGraph, nodePositions,
                   edgeWeights, gAqiCache, air, hist, xvars>>

\* the clock advances and the air changes
RTick ==
    /\ now < MaxTicks * TickMs
    /\ now' = now + TickMs
    /\ air' \in AirStates
    /\ UNCHANGED <<aqiCache, srcCache, lk, evicted, roadGraph, nodePositions,
                   edgeWeights, gAqiCache, rq, hist, xvars>>

RNext ==
    \/ \E r \in RouteIds, thr \in Thresholds : FindOptimalRoutes(r, thr)
    \/ \E thr \in Thresholds : LoadScenario(thr)
    \/ ExposurePhase
    \/ SweepStep
    \/ Finish
    \/ \E w \in 1..Len(WeightCombinations) : Rerun(w)
    \/ Reset
    \/ RTick

RouteSpec == Init /\ [][RNext]_vars

(***************************************************************************)
(* The page: the wrapped window.processRoutes (mapLogic.js) calls          *)
(* findOptimalRoutes on the one shared GraphRoutingService and hands the   *)
(* outcome to the original processRoutes.  A wrapper call started while an *)
(* earlier one awaits a provider fetch runs on the same service maps; rq   *)
(* is the call whose continuation runs next, ui.other the one waiting.     *)
(*   ui.superseded       a newer call has started since rq's call started  *)
(*   ui.otherSuperseded  the same for ui.other                             *)
(*   ui.prefs            the preferences of the finished call rq           *)
(*   ui.last             the wrapper call that returned last: its route    *)
(*                       set, whether routing failed totally, whether it   *)
(*                       was superseded, the calls of the original         *)
(*                       processRoutes it made                             *)
(***************************************************************************)
\* the caller's preferences: the wrapper's route-type choices, and a direct
\* caller asking for one alternative
Prefs ==
    { [aqiW10 |-> 7, distW10 |-> 3, maxAlternatives |-> 5],
      [aqiW10 |-> 9, distW10 |-> 3, maxAlternatives |-> 5],
      [aqiW10 |-> 7, distW10 |-> 9, maxAlternatives |-> 5],
      [aqiW10 |-> 7, distW10 |-> 3, maxAlternatives |-> 1] }

\* paretoRoutes.sort left out
SortByScoreWithUnsorted(routes, p) == routes

\* scoreA, scoreB with the preferences' weights, and the stable sort by them
ScoreWith(r, p) == 5 * r.totalExposure * p.aqiW10 + 4167 * r.totalDistance * p.distW10
RECURSIVE SortByScoreWith(_, _)
SortByScoreWith(routes, p) ==
    IF routes = <<>> THEN <<>>
    ELSE LET rest == SortByScoreWith(SubSeq(routes, 1, Len(routes) - 1), p)
             r == routes[Len(routes)]
             k == Cardinality({i \in 1..Len(rest) :
                                  ScoreWith(rest[i], p) <= ScoreWith(r, p)})
         IN  SubSeq(rest, 1, k) \o <<r>> \o SubSeq(rest, k + 1, Len(rest))

\* paretoRoutes.slice(0, maxAlternatives)
SliceTop(routes, n) == SubSeq(routes, 1, IF Len(routes) < n THEN Len(routes) ELSE n)

\* GraphRoutingService.findOptimalRoutes: optimalRoutes.map((route, index)
\* => ({..., paretoRank: index + 1}))
RankRoutes(routes) ==
    [i \in 1..Len(routes) |->
        [path |-> routes[i].path, totalDistance |-> routes[i].totalDistance,
         totalExposure |-> routes[i].totalExposure, paretoRank |-> i]]

\* GraphRoutingService.findOptimalRoutes as its caller sees it end: it threw
\* (no nearest node), or it returned the ranked routes
ServiceOutcome(r) ==
    IF r.pc = "failed" THEN [thrown |-> TRUE, routes |-> <<>>]
    ELSE [thrown |-> FALSE, routes |-> RankRoutes(r.result)]

\* mapLogic.findOptimalRoutes after its await: the baseline routes array
\* when the service threw or returned no route, else {routes, graphStats}
MapLogicReturn(out) ==
    IF out.thrown \/ Len(out.routes) = 0
    THEN [kind |-> "array", routes |-> <<>>]
    ELSE [kind |-> "object", routes |-> out.routes]

\* originalProcessRoutes.call(this, routes) with the wrapper's own argument,
\* the baseline routes of route set rs, and with the optimised routes
BaselineCall(rs) == [arg |-> "baseline", rs |-> rs, routes |-> <<>>]
EnhancedCall(rs, routes) == [arg |-> "enhanced", rs |-> rs, routes |-> routes]

\* the wrapper without its catch: the TypeError leaves it
WrapperCallsNoCatch(ret, rs) ==
    IF ret.kind = "array" THEN <<>>
    ELSE IF Len(ret.routes) > 0 THEN <<EnhancedCall(rs, ret.routes)>>
    ELSE <<BaselineCall(rs)>>

\* the wrapper after its await: the calls of originalProcessRoutes it makes.
\* On the baseline array enhancedRoutes.routes is undefined, reading .length
\* throws a TypeError, and the catch calls originalProcessRoutes(routes).
WrapperCalls(ret, rs) ==
    IF ret.kind = "array" THEN <<BaselineCall(rs)>>
    ELSE IF Len(ret.routes) > 0 THEN <<EnhancedCall(rs, ret.routes)>>
    ELSE <<BaselineCall(rs)>>

\* the call rq will wait for the providers: an edge of the graph whose tile
\* has no live entry in the tile cache and, in the sweep, whose midpoint has
\* no live entry in the router's own cache either
AwaitsProviders ==
    \E i \in 1..Len(edgeWeights) :
        LET c == edgeWeights[i].midpoint
            key == <<toFixed3(c.lat), toFixed3(c.lng)>>
        IN  /\ ~SimpleCacheGet(aqiCache, getTileKey(c), TILE_TTL_MS, now).hit
            /\ (rq.pc = "sweep") =>
                   ~(key \in DOMAIN gAqiCache
                       /\ now - gAqiCache[key].timestamp < G_AQI_TTL_MS)

\* the call waits for a provider longer than the caches keep their entries
\* (fetch has no timeout)
Wait ==
    /\ rq.pc \in {"exposure", "sweep"}
    /\ rq.entry = "routes"
    /\ now < MaxTicks * TickMs
    /\ now' = MaxTicks * TickMs
    /\ UNCHANGED <<aqiCache, srcCache, lk, evicted, roadGraph, nodePositions,
                   edgeWeights, gAqiCache, air, rq, hist, xvars>>

\* findOptimalRoutes(startCoord, endCoord, [], preferences): no baseline route
NoBaseline(thr) ==
    /\ rq.pc = "idle"
    /\ hist.n < MaxRequests
    /\ NearestNodes(0, thr,
                    buildRoadGraph([roadGraph |-> roadGraph, nodePositions |-> nodePositions,
                                    edgeWeights |-> edgeWeights], <<>>),
                    <<Pt(19000, 2100), Pt(19000, 3900)>>)
    /\ UNCHANGED <<now, aqiCache, srcCache, lk, evicted, gAqiCache, air, xvars>>

\* 'routesfound' fires again while the earlier wrapper call awaits the
\* providers: a second findOptimalRoutes on the same service
Supersede(r, thr) ==
    /\ rq.pc \in {"exposure", "sweep"}
    /\ rq.entry = "routes"
    /\ ui.other = None
    /\ AwaitsProviders
    /\ hist.n < MaxRequests
    /\ NearestNodes(r, thr,
                    buildRoadGraph([roadGraph |-> roadGraph, nodePositions |-> nodePositions,
                                    edgeWeights |-> edgeWeights], RouteSets[r]),
                    RouteSets[r][1])
    /\ ui' = [ui EXCEPT !.other = rq, !.otherSuperseded = TRUE, !.superseded = FALSE]
    /\ UNCHANGED <<now, aqiCache, srcCache, lk, evicted, gAqiCache, air, fx>>

\* the other call's await settles first: its continuation runs next
Resume ==
    /\ ui.other # None
    /\ rq.pc \in {"exposure", "sweep"}
    /\ ui.other.pc \in {"exposure", "sweep"}
    /\ rq' = ui.other
    /\ ui' = [ui EXCEPT !.other = rq, !.superseded = ui.otherSuperseded,
                        !.otherSuperseded = ui.superseded]
    /\ UNCHANGED <<now, aqiCache, srcCache, lk, evicted, roadGraph, nodePositions,
                   edgeWeights, gAqiCache, air, hist, fx>>

\* sort, slice(0, maxAlternatives), return, with the caller's preferences p
FinishWith(p) ==
    /\ rq.pc = "rank"
    /\ rq' = [rq EXCEPT !.pc = "done",
                        !.result = SliceTop(SortByScoreWith(rq.pareto, p), p.maxAlternatives)]
    /\ ui' = [ui EXCEPT !.prefs = p]
    /\ UNCHANGED <<now, aqiCache, srcCache, lk, evicted, roadGraph, nodePositions,
                   edgeWeights, gAqiCache, air, hist, fx>>

\* the service call has ended: mapLogic.findOptimalRoutes returns, the
\* wrapper resumes and calls the original processRoutes
Deliver ==
    /\ rq.pc \in {"done", "failed"}
    /\ rq.entry = "routes"
    /\ ui' = [other |-> None, superseded |-> ui.otherSuperseded,
              otherSuperseded |-> FALSE, prefs |-> None,
              last |-> [rs |-> rq.rs,
                        failed |-> rq.pc = "failed" \/ rq.result = <<>>,
                        stale |-> ui.superseded,
                        calls |-> WrapperCalls(MapLogicReturn(ServiceOutcome(rq)), rq.rs)]]
    /\ rq' = IF ui.other = None THEN IdleRequest ELSE ui.other
    /\ UNCHANGED <<now, aqiCache, srcCache, lk, evicted, roadGraph, nodePositions,
                   edgeWeights, gAqiCache, air, hist, fx>>

UiNext ==
    \/ \E r \in RouteIds, thr \in Thresholds : FindOptimalRoutes(r, thr)
    \/ \E thr \in Thresholds : NoBaseline(thr)
    \/ \E r \in RouteIds, thr \in Thresholds : Supersede(r, thr)
    \/ Resume
    \/ Wait
    \/ ExposurePhase
    \/ SweepStep
    \/ \E p \in Prefs : FinishWith(p)
    \/ Deliver

UiSpec == Init /\ [][UiNext]_vars

(***************************************************************************)
(* One provider round on its own: the three provider functions convert     *)
(* what their APIs answered, getAggregatedAQI aggregates.  fx.raw[p] is    *)
(* the answer of provider p (ok = FALSE: the fetch failed; raw = -1: the   *)
(* field is missing from the body).                                        *)
(***************************************************************************)
\* the 0-500 index values around the breakpoints, and OpenWeather's levels
IndexValues == {-1, 0, 1, 50, 51, 100, 101, 150, 151, 200, 201, 500}
LevelValues == {-1, 1, 2, 3, 4, 5}
Answers(p) ==
    {[ok |-> FALSE, raw |-> -1]} \cup
    {[ok |-> TRUE, raw |-> r] :
        r \in (IF p = "openweather" THEN LevelValues ELSE IndexValues)}

AggInit ==
    /\ now = 0
    /\ aqiCache = <<>>
    /\ srcCache = [p \in Providers |-> <<>>]
    /\ lk = [l \in Lookups |-> IdleLookup]
    /\ evicted = [t \in Tiles |-> None]
    /\ roadGraph = <<>>
    /\ nodePositions = <<>>
    /\ edgeWeights = <<>>
    /\ gAqiCache = <<>>
    /\ air = AirOf(Moderate, Clean)
    /\ rq = IdleRequest
    /\ hist = [n |-> 0, first |-> None]
    /\ ui = IdleUi
    /\ \E ow \in Answers("openweather"), iq \in Answers("iqair"), wq \in Answers("waqi") :
          fx = [pc |-> "answered",
                raw |-> [openweather |-> ow, iqair |-> iq, waqi |-> wq],
                res |-> None, agg |-> None]

\* getOpenWeatherAQI, getIQAirAQI, getWAQIData return their result objects
Convert ==
    /\ fx.pc = "answered"
    /\ fx' = [fx EXCEPT !.pc = "converted",
                        !.res = [p \in Providers |->
                                   IF fx.raw[p].ok THEN ProviderResult(p, fx.raw[p].raw)
                                   ELSE ErrorResult(p)]]
    /\ UNCHANGED <<now, aqiCache, srcCache, lk, evicted, roadGraph, nodePositions,
                   edgeWeights, gAqiCache, air, rq, hist, ui>>

\* getAggregatedAQI after Promise.all
AggregateAll ==
    /\ fx.pc = "converted"
    /\ fx' = [fx EXCEPT !.pc = "aggregated", !.agg = AggregateResults(fx.res)]
    /\ UNCHANGED <<now, aqiCache, srcCache, lk, evicted, roadGraph, nodePositions,
                   edgeWeights, gAqiCache, air, rq, hist, ui>>

AggNext == Convert \/ AggregateAll

AggSpec == AggInit /\ [][AggNext]_vars

(***************************************************************************)
(* AQIService on its own: the router stays idle                            *)
(***************************************************************************)
ANext ==
    \/ \E l \in Lookups, c \in Coords, force \in BOOLEAN : Start(l, c, force)
    \/ \E l \in Lookups, p \in Providers : \E o \in Outcomes(p) : Respond(l, p, o)
    \/ \E l \in Lookups : Aggregate(l)
    \/ \E l \in Lookups : Store(l)
    \/ \E l \in Lookups : Return(l)
    \/ Tick

Spec == Init /\ [][ANext]_vars

(***************************************************************************)
(* FairSpec: the calls with providers that may never answer, the clock     *)
(* left alone (no code path reads a timer).  The event loop runs every     *)
(* continuation that is ready, and a provider that has not hung answers.   *)
(***************************************************************************)
FNext ==
    \/ \E l \in Lookups, c \in Coords, force \in BOOLEAN : Start(l, c, force)
    \/ \E l \in Lookups, p \in Providers : \E o \in Outcomes(p) : Respond(l, p, o)
    \/ \E l \in Lookups, p \in Providers : Hang(l, p)
    \/ \E l \in Lookups : Aggregate(l)
    \/ \E l \in Lookups : Store(l)
    \/ \E l \in Lookups : Return(l)

FairSpec ==
    /\ Init
    /\ [][FNext]_vars
    /\ \A l \in Lookups :
         /\ WF_vars(Aggregate(l))
         /\ WF_vars(Store(l))
         /\ \A p \in Providers : WF_vars(\E o \in Outcomes(p) : Respond(l, p, o))

(***************************************************************************)
(* Claims about AQIService                                                 *)
(***************************************************************************)

\* C1 (as stated): a getAQI call without forceRefresh for a tile whose last
\* entry was stored less than 30 minutes before the call issues no provider
\* fetch and returns the stored value, whatever lookups happened in between.
C1_SecondLookupServedFromCache ==
    \A l \in Lookups :
        (lk[l].pc # "idle" /\ ~lk[l].force /\ lk[l].expect # None)
            => /\ lk[l].net = {}
               /\ lk[l].pc = "done" => lk[l].ret = lk[l].expect

\* C1 (amended): the same, for a tile whose entry is still in aqiCache when
\* the call is made (the capacity limit has not evicted it): the call returns
\* at once with the stored value and issues no provider fetch.
C1_CachedEntryServedWithinTTL ==
    \A l \in Lookups :
        (lk[l].pc # "idle" /\ ~lk[l].force /\ lk[l].expect # None /\ lk[l].present)
            => /\ lk[l].pc = "done"
               /\ lk[l].net = {}
               /\ lk[l].ret = lk[l].expect

\* a later call (15 minutes after the store) served from the tile's entry
C1_Witness ==
    \E l \in Lookups :
        /\ lk[l].pc = "done" /\ ~lk[l].force
        /\ lk[l].expect # None /\ lk[l].present
        /\ \E i \in 1..Len(aqiCache) :
             /\ aqiCache[i].key = TileOf(lk[l].coord)
             /\ now - aqiCache[i].timestamp = TickMs

C4_EveryLookupCompletes ==
    \A l \in Lookups : (lk[l].pc = "fetching") ~> (lk[l].pc = "done")

(***************************************************************************)
(* Claims about GraphRoutingService (under RouteSpec)                      *)
(***************************************************************************)
Dominates(a, b) ==
    /\ a.totalDistance <= b.totalDistance
    /\ a.totalExposure <= b.totalExposure
    /\ (a.totalDistance < b.totalDistance \/ a.totalExposure < b.totalExposure)

\* C2 (as stated): in the list a request returns, no route dominates another
\* (distance <= and exposure <=, one of them strictly less).
C2_NoReturnedRouteDominated ==
    rq.pc = "done" =>
        \A i, j \in 1..Len(rq.result) : ~Dominates(rq.result[i], rq.result[j])

\* The solver call for weight pair w of a sweep on the 3-node graph, without
\* threshold filtering, the exposure estimator having given AQI 5 for A-C
\* and AQI 1 for A-B and B-C.
ScenarioRun(w) ==
    /\ rq.entry = "scenario" /\ rq.thr = 5
    /\ rq.run # None /\ rq.run.w = w
    /\ rq.expLevel[<<0, 2>>] = 5 /\ rq.expLevel[<<0, 1>>] = 1 /\ rq.expLevel[<<1, 2>>] = 1

\* C5 (as stated): on the 3-node graph the solver with weights (0, 1) and no
\* threshold filtering selects the direct path A-C.
C5_DistanceOnlySelectsDirect ==
    ScenarioRun(5) => rq.run.path = <<0, 2>>

\* C5 (amended): on the 3-node graph the solver with weights (0, 1) and no
\* threshold filtering selects A-B-C, the path of 800 m, shorter than the
\* direct edge of 1000 m.
C5_DistanceOnlySelectsShorter ==
    ScenarioRun(5) =>
        /\ rq.run.status = "route"
        /\ rq.run.path = <<0, 1, 2>>
        /\ rq.run.totalDistance = 800

\* the solver has run with (0, 1) on the 3-node graph
C5_Witness ==
    /\ ScenarioRun(5)
    /\ rq.pc = "rank"
    /\ rq.run.totalDistance < EdgeGet(edgeWeights, <<0, 2>>).distance

\* C6: on the 3-node graph the solver with weights (1, 0) and no threshold
\* filtering selects A-B-C, the path of lower exposure.
C6_ExposureOnlySelectsCleaner ==
    ScenarioRun(1) =>
        /\ rq.run.status = "route"
        /\ rq.run.path = <<0, 1, 2>>

\* the solver has run with (1, 0) on the 3-node graph, and the path it
\* returned has less exposure than the direct edge
C6_Witness ==
    /\ ScenarioRun(1)
    /\ rq.pc = "sweep" /\ rq.w = 2
    /\ rq.run.totalExposure < rq.exposures[<<0, 2>>]

\* the directed edges of the road graph and of a weighted graph
RoadEdges(rg) ==
    UNION {{<<n - 1, rg[n][j].to>> : j \in 1..Len(rg[n])} : n \in 1..Len(rg)}
WeightedEdges(wg) ==
    UNION {{<<n, m>> : m \in DOMAIN wg[n]} : n \in DOMAIN wg}

\* the nodes the road graph connects to the nodes of S
RECURSIVE ReachFrom(_, _)
ReachFrom(rg, S) ==
    LET T == S \cup {e[2] : e \in {x \in RoadEdges(rg) : x[1] \in S}}
    IN  IF T = S THEN S ELSE ReachFrom(rg, T)
Connected(rg, s, e) == e \in ReachFrom(rg, {s})

\* every edge of the last solver call was read with an AQI level over the
\* threshold
AllEdgesOver(thr) ==
    /\ rq.run # None
    /\ rq.thr = thr
    /\ RoadEdges(roadGraph) # {}
    /\ \A k \in RoadEdges(roadGraph) : rq.run.levels[k] > thr

\* C7 (as stated): for every threshold the weighted graph of a solver call
\* has exactly the edges of the road graph, and with threshold 2 and every
\* edge over it the solver returns a path whenever start and end are
\* connected in the road graph.
C7_PenalisedNeverRemoved ==
    rq.run # None =>
        /\ WeightedEdges(rq.run.wg) = RoadEdges(roadGraph)
        /\ (AllEdgesOver(2) /\ Connected(roadGraph, rq.s, rq.e))
              => rq.run.status = "route"

\* C7 (amended): for every threshold the weighted graph of a solver call has
\* exactly the edges of the road graph, and (for every threshold, so also
\* with threshold 2 and every edge over it) the solver returns a path
\* whenever start and end are distinct nodes connected in the road graph;
\* for start = end it returns null.
C7_PenalisedNeverRemovedDistinctEnds ==
    rq.run # None =>
        /\ WeightedEdges(rq.run.wg) = RoadEdges(roadGraph)
        /\ (rq.s # rq.e /\ Connected(roadGraph, rq.s, rq.e)) => rq.run.status = "route"
        /\ rq.s = rq.e => rq.run.status = "null"

\* a solver call with threshold 2, every edge over it, distinct ends: a path
\* over penalised edges
C7_Witness ==
    /\ AllEdgesOver(2)
    /\ rq.s # rq.e
    /\ rq.run.status = "route"
    /\ Len(rq.run.path) = 2

\* C8: every weight written into the weighted graph is >= 0.001.
C8_WeightAtLeastFloor ==
    rq.run # None =>
        \A k \in WeightedEdges(rq.run.wg) : rq.run.wg[k[1]][k[2]] >= WeightFloor

\* an edge of 0 m under weights (0, 1), on the penalised branch: the
\* composite weight 0 is written as 0.001
C8_Witness ==
    /\ AllEdgesOver(2)
    /\ rq.run.w = 5
    /\ \E k \in WeightedEdges(rq.run.wg) :
          /\ EdgeGet(edgeWeights, k).distance = 0
          /\ rq.run.wg[k[1]][k[2]] = WeightFloor

SameOutcome(a, b) ==
    /\ a.status = b.status
    /\ a.path = b.path
    /\ a.totalDistance = b.totalDistance
    /\ a.totalExposure = b.totalExposure

C10_RebuildSameCounts ==
    (rq.entry = "routes" /\ rq.again) => rq.stats = hist.first.stats

\* the first route set built again, over the graph of another route set
C10_Witness ==
    /\ rq.entry = "routes" /\ rq.again /\ rq.over
    /\ hist.n = 3
    /\ rq.stats.nodes = Len(roadGraph)


(***************************************************************************)
(* Overlapping requests on the page (UiSpec)                               *)
(***************************************************************************)
\* the graph buildRoadGraph makes of the baseline routes of route set r
OwnGraph(r) ==
    buildRoadGraph([roadGraph |-> <<>>, nodePositions |-> <<>>, edgeWeights |-> <<>>],
                   RouteSets[r])

\* route rt runs along edges of graph g and its length is theirs
RouteOnGraph(rt, g) ==
    /\ \A k \in 1..(Len(rt.path) - 1) : EdgeHas(g.edgeWeights, <<rt.path[k], rt.path[k + 1]>>)
    /\ rt.totalDistance = PathDistance(rt.path, g.edgeWeights)

\* C11: overlapping findOptimalRoutes calls on the shared service do not
\* interfere: the routes a request returns are computed from the graph
\* built from its own baseline routes only.
C11_RoutesFromOwnGraph ==
    (rq.pc = "done" /\ rq.entry = "routes") =>
        \A i \in 1..Len(rq.result) : RouteOnGraph(rq.result[i], OwnGraph(rq.rs))

\* C12: when a newer routing request has started before an earlier one
\* completed, the earlier (stale) request's result is ignored when it
\* completes: it hands no routes to the original processRoutes.
C12_StaleResultIgnored ==
    (ui.last # None /\ ui.last.stale) => ui.last.calls = <<>>

\* no weight combination of the finished sweep gave a route
NoRunGaveRoute ==
    /\ Len(rq.runs) = Len(WeightCombinations)
    /\ \A i \in 1..Len(rq.runs) : rq.runs[i].status # "route"

\* C13 as stated: with no baseline routes, or when no weight combination
\* yields a path, findOptimalRoutes fails with an error instead of
\* returning normally.
C13_NoRouteSurfacedAsError ==
    (rq.entry = "routes" /\ rq.pc \in {"done", "failed"}
        /\ (rq.rs = 0 \/ NoRunGaveRoute))
    => rq.pc = "failed"

\* C13 amended: with no baseline routes findOptimalRoutes fails with an
\* error; when no weight combination yields a path it returns normally,
\* with an empty list; it fails only when a nearest node is missing.
C13_EmptyThrowsNoPathReturnsEmpty ==
    /\ (rq.entry = "routes" /\ rq.rs = 0) => rq.pc = "failed"
    /\ (rq.entry = "routes" /\ rq.pc = "done" /\ NoRunGaveRoute) => rq.result = <<>>
    /\ (rq.entry = "routes" /\ rq.pc = "failed") => (rq.s = -1 \/ rq.e = -1)

\* a call without baseline routes has failed and been handed on, and a call
\* whose five solver runs all threw has returned the empty list
C13_Witness ==
    /\ ui.last # None /\ ui.last.rs = 0 /\ ui.last.failed
    /\ rq.entry = "routes" /\ rq.pc = "done" /\ rq.result = <<>>
    /\ Len(rq.runs) = Len(WeightCombinations)
    /\ \A i \in 1..Len(rq.runs) : rq.runs[i].status = "throw"

\* some weight combination of the sweep gave a route
SomeRunGaveRoute == \E i \in 1..Len(rq.runs) : rq.runs[i].status = "route"

\* C14: if the solver yields no path (or throws) for some weight
\* combinations but a path for at least one other, findParetoOptimalRoutes
\* does not throw and returns a non-empty list.
C14_PartialFailureStillReturns ==
    /\ (rq.entry = "routes" /\ rq.pc = "done" /\ SomeRunGaveRoute) => rq.result # <<>>
    /\ (rq.entry = "routes" /\ rq.pc = "rank" /\ SomeRunGaveRoute) => rq.pareto # <<>>
    /\ (rq.entry = "routes" /\ rq.pc = "failed") => rq.runs = <<>>

\* a sweep in which a combination gave a route and another one threw has
\* returned its list
C14_Witness ==
    /\ rq.entry = "routes" /\ rq.pc = "done"
    /\ SomeRunGaveRoute
    /\ \E i \in 1..Len(rq.runs) : rq.runs[i].status = "throw"
    /\ rq.result # <<>>

\* C15: whenever graph routing fails totally (an error thrown, no nearest
\* node, or no optimised route), the wrapped window.processRoutes calls the
\* original processRoutes exactly once, with the baseline routes it was
\* given.
C15_FailureCallsOriginalOnce ==
    (ui.last # None /\ ui.last.failed) => ui.last.calls = <<BaselineCall(ui.last.rs)>>

\* the wrapper has returned from a request with baseline routes whose graph
\* routing gave no route
C15_Witness ==
    /\ ui.last # None /\ ui.last.failed /\ ui.last.rs \in RouteIds
    /\ ui.last.calls = <<BaselineCall(ui.last.rs)>>

\* C18: the list findParetoOptimalRoutes returns is sorted ascending by
\* score = totalExposure * aqiWeight + (totalDistance / 1000) *
\* distanceWeight with the caller's weights and holds at most
\* maxAlternatives routes, and findOptimalRoutes numbers the routes it
\* returns paretoRank = 1..n in that order.
C18_SortedCappedRanked ==
    /\ (rq.entry = "routes" /\ rq.pc = "done") =>
          /\ Len(rq.result) <= ui.prefs.maxAlternatives
          /\ \A i, j \in 1..Len(rq.result) :
                i < j => ScoreWith(rq.result[i], ui.prefs) <= ScoreWith(rq.result[j], ui.prefs)
          /\ \A i \in 1..Len(rq.result) :
                \E k \in 1..Len(rq.pareto) :
                    /\ rq.pareto[k] = rq.result[i]
                    /\ ServiceOutcome(rq).routes[i].paretoRank = i
                    /\ ServiceOutcome(rq).routes[i].path = rq.pareto[k].path
    /\ (ui.last # None /\ ~ui.last.failed) =>
          \A i \in 1..Len(ui.last.calls[1].routes) :
              ui.last.calls[1].routes[i].paretoRank = i

\* a sweep that found two routes has returned them in the order of the
\* caller's score, which is not the order in which the sweep found them
C18_Witness ==
    /\ rq.entry = "routes" /\ rq.pc = "done"
    /\ Len(rq.pareto) = 2 /\ Len(rq.result) = 2
    /\ rq.result[1] = rq.pareto[2]
    /\ ScoreWith(rq.result[1], ui.prefs) < ScoreWith(rq.result[2], ui.prefs)

(***************************************************************************)
(* The tile cache's time to live (Spec)                                    *)
(***************************************************************************)
\* C16: a cached exposure entry is returned only while its age is strictly
\* less than 30 minutes: a getAQI call answered from the tile cache (no
\* aggregation made) found an entry stored less than 30 minutes before.
C16_CachedOnlyUnderThirtyMinutes ==
    \A l \in Lookups :
        (lk[l].pc = "done" /\ ~lk[l].force /\ lk[l].agg = None)
            => lk[l].expect # None

(***************************************************************************)
(* Conversion and aggregation (AggSpec)                                    *)
(***************************************************************************)
\* the provider results of the round that count as valid (value > 0)
ValidResults == {p \in Providers : fx.res[p].value > 0}

\* C17: every level a provider function returns is an integer in 1..5 or
\* the unavailable sentinel -1, and every level getAggregatedAQI returns
\* (the one getAQI stores and returns) is an integer in 1..5, for every
\* combination of provider outcomes and every aggregation branch.
C17_LevelsInRange ==
    /\ fx.pc \in {"converted", "aggregated"} =>
           \A p \in Providers : fx.res[p].value \in (1..5) \cup {-1}
    /\ fx.pc = "aggregated" => fx.agg.value \in 1..5

\* the weighted-mean branch has returned with all three providers valid and
\* disagreeing
C17_Witness ==
    /\ fx.pc = "aggregated"
    /\ ValidResults = Providers
    /\ fx.res["openweather"].value = 1 /\ fx.res["waqi"].value = 5
    /\ fx.agg.source = "aggregated" /\ fx.agg.value \in 1..5

\* the weight the aggregation is to give a result, in 1/10000: 1.0, times
\* 1.5 for confidence high or 0.7 for low, times 1.3 for waqi or 1.2 for
\* iqair; 0 for a result that is not valid
StatedWeight(p) ==
    IF p \notin ValidResults THEN 0
    ELSE (IF fx.res[p].confidence = "high" THEN 150
          ELSE IF fx.res[p].confidence = "low" THEN 70 ELSE 100)
         * (IF p = "waqi" THEN 130 ELSE IF p = "iqair" THEN 120 ELSE 100)
StatedTotal == StatedWeight("openweather") + StatedWeight("iqair") + StatedWeight("waqi")
StatedSum ==
    fx.res["openweather"].value * StatedWeight("openweather")
        + fx.res["iqair"].value * StatedWeight("iqair")
        + fx.res["waqi"].value * StatedWeight("waqi")

\* C19: with two or more valid provider results the aggregated level is
\* round(sum(value_i * w_i) / sum(w_i)) with the weights above: the integer
\* v with v - 1/2 <= sum / total < v + 1/2.
C19_WeightedMeanRounded ==
    (fx.pc = "aggregated" /\ Cardinality(ValidResults) >= 2) =>
        /\ fx.agg.source = "aggregated"
        /\ (2 * fx.agg.value - 1) * StatedTotal <= 2 * StatedSum
        /\ 2 * StatedSum < (2 * fx.agg.value + 1) * StatedTotal

\* OpenWeather's level 5 and IQAir's level 2 aggregated to 3: the weighted
\* mean is 3.07, the unweighted one 3.5
C19_Witness ==
    /\ fx.pc = "aggregated"
    /\ ValidResults = {"openweather", "iqair"}
    /\ fx.res["openweather"].value = 5 /\ fx.res["iqair"].value = 2
    /\ fx.agg.value = 3

\* the level of a 0-500 index by the breakpoints
Breakpoints(usAqi) ==
    IF usAqi <= 50 THEN 1
    ELSE IF usAqi <= 100 THEN 2
    ELSE IF usAqi <= 150 THEN 3
    ELSE IF usAqi <= 200 THEN 4
    ELSE 5

\* C20: for every index value of a 0-500 provider, 0 included, the
\* conversion follows the breakpoints <= 50 -> 1, <= 100 -> 2, <= 150 -> 3,
\* <= 200 -> 4, else 5; only a missing or negative index is invalid.
C20_ConversionFollowsBreakpoints ==
    fx.pc \in {"converted", "aggregated"} =>
        \A p \in {"iqair", "waqi"} :
            fx.raw[p].ok =>
                fx.res[p].value = IF fx.raw[p].raw < 0 THEN -1
                                  ELSE Breakpoints(fx.raw[p].raw)

(***************************************************************************)
(* The sweep's duplicate filter (RouteSpec)                                *)
(***************************************************************************)
\* a and b differ by less than 5 % in distance and by less than 5 % in
\* exposure, each relative to the larger of the two values
Duplicates(a, b) ==
    /\ 100 * Abs(a.totalDistance - b.totalDistance)
          < 5 * Max(a.totalDistance, b.totalDistance)
    /\ 100 * Abs(a.totalExposure - b.totalExposure)
          < 5 * Max(a.totalExposure, b.totalExposure)

\* the kept route that is the result of the sweep's run i, if any
KeptOfRun(i) == {k \in 1..Len(rq.pareto) : rq.pareto[k].w = i}

\* C21: in sweep order a solver result is kept iff no already-kept route is
\* a duplicate of it (less than 5 % apart in distance and in exposure);
\* hence no two kept routes are duplicates and of a group of duplicates the
\* first in sweep order is the one kept.
C21_KeptIffNoKeptDuplicate ==
    /\ \A i \in 1..Len(rq.runs) :
          rq.runs[i].status = "route" =>
              (KeptOfRun(i) # {}
                  <=> ~\E k \in 1..Len(rq.pareto) :
                          rq.pareto[k].w < i /\ Duplicates(rq.pareto[k], rq.runs[i]))
    /\ \A k \in 1..Len(rq.pareto) :
          /\ rq.pareto[k].w \in 1..Len(rq.runs)
          /\ rq.runs[rq.pareto[k].w].status = "route"
          /\ rq.runs[rq.pareto[k].w].path = rq.pareto[k].path
          /\ \A m \in 1..Len(rq.pareto) :
                k < m => /\ rq.pareto[k].w < rq.pareto[m].w
                         /\ ~Duplicates(rq.pareto[k], rq.pareto[m])

\* a finished sweep that kept two routes and dropped a later result as the
\* duplicate of a kept one
C21_Witness ==
    /\ rq.pc = "rank" /\ Len(rq.pareto) = 2
    /\ \E i \in 1..Len(rq.runs) :
          /\ rq.runs[i].status = "route" /\ KeptOfRun(i) = {}
          /\ \E k \in 1..Len(rq.pareto) :
                rq.pareto[k].w < i /\ Duplicates(rq.pareto[k], rq.runs[i])

(***************************************************************************)
(* The road graph after a build (RouteSpec)                                *)
(***************************************************************************)
\* the undirected edges between distinct nodes that edgeWeights holds
UndirectedEdges ==
    {{edgeWeights[i].key[1], edgeWeights[i].key[2]} :
        i \in {j \in 1..Len(edgeWeights) : edgeWeights[j].key[1] # edgeWeights[j].key[2]}}

\* C22: buildRoadGraph adds no edge for two consecutive coordinates that
\* quantize to the same node: after any build the graph has no self-loop
\* and no zero-distance edge, every stored edge a->b has its reverse b->a
\* with the same distance, and the reported edge count is the whole number
\* of undirected edges between distinct nodes.
C22_NoSelfLoopSymmetricWholeCount ==
    /\ \A i \in 1..Len(edgeWeights) :
          LET e == edgeWeights[i] IN
          /\ e.key[1] # e.key[2]
          /\ e.distance > 0
          /\ EdgeHas(edgeWeights, <<e.key[2], e.key[1]>>)
          /\ EdgeGet(edgeWeights, <<e.key[2], e.key[1]>>).distance = e.distance
    /\ \A n \in 1..Len(roadGraph) : \A j \in 1..Len(roadGraph[n]) :
          /\ roadGraph[n][j].to # n - 1
          /\ roadGraph[n][j].distance > 0
          /\ NeighborHas(roadGraph[roadGraph[n][j].to + 1], n - 1)
    /\ (rq.entry = "routes" /\ rq.stats # None) =>
          rq.stats.edges2 = 2 * Cardinality(UndirectedEdges)

(***************************************************************************)
(* The exposure dose of an edge (RouteSpec)                                *)
(***************************************************************************)
\* the sample the estimator returned with this level (the level tells the
\* samples of the model apart)
SampleOfLevel(level) == CHOOSE a \in {Clean, Moderate, Hazardous} : a.value = level

\* AQI level * travel time in minutes, times 1.1 for confidence low and
\* 0.95 for high, in the units of rq.exposures (1 / 833400 of a dose unit)
StatedDose(a, distance) ==
    a.value * distance * 10
        * (IF a.confidence = "low" THEN 110 ELSE IF a.confidence = "high" THEN 95 ELSE 100)

\* the edges whose dose the request has computed
DosedEdges ==
    {i \in 1..Len(edgeWeights) : edgeWeights[i].key \in DOMAIN rq.exposures}

RECURSIVE StepsDistance(_, _)
StepsDistance(path, k) ==
    IF k = 0 THEN 0
    ELSE EdgeGet(edgeWeights, <<path[k], path[k + 1]>>).distance + StepsDistance(path, k - 1)
RECURSIVE StepsExposure(_, _)
StepsExposure(path, k) ==
    IF k = 0 THEN 0
    ELSE rq.exposures[<<path[k], path[k + 1]>>] + StepsExposure(path, k - 1)

\* route rt leads from the request's start node to its end node along edges
\* of the road graph, and its totals are the sums over exactly those edges
RouteAlongGraph(rt) ==
    /\ Len(rt.path) >= 2
    /\ rt.path[1] = rq.s /\ rt.path[Len(rt.path)] = rq.e
    /\ \A k \in 1..(Len(rt.path) - 1) :
          /\ rt.path[k] + 1 \in 1..Len(roadGraph)
          /\ NeighborHas(roadGraph[rt.path[k] + 1], rt.path[k + 1])
          /\ EdgeHas(edgeWeights, <<rt.path[k], rt.path[k + 1]>>)
          /\ <<rt.path[k], rt.path[k + 1]>> \in DOMAIN rq.exposures
    /\ rt.totalDistance = StepsDistance(rt.path, Len(rt.path) - 1)
    /\ rt.totalExposure = StepsExposure(rt.path, Len(rt.path) - 1)

\* C24: every route returned by findSingleObjectiveRoute has a node path
\* from the start node to the end node that steps only along edges of the
\* road graph; its totalDistance is the sum of the distances and its
\* totalExposure the sum of the unpenalised exposure doses of exactly those
\* edges, whatever the threshold.  Stated of every solver run, on the graph
\* and the doses as they are when the run returns.
C24_EveryRunAlongGraphWithTotals ==
    [][(SweepStep /\ rq'.run.status = "route") => RouteAlongGraph(rq.run)']_vars

\* the same of the runs of a request and the routes it has kept, for
\* requests served one after the other (RouteSpec)
RunsAlongGraphWithTotals ==
    /\ \A i \in 1..Len(rq.runs) :
          rq.runs[i].status = "route" => RouteAlongGraph(rq.runs[i])
    /\ \A k \in 1..Len(rq.pareto) : RouteAlongGraph(rq.pareto[k])

(***************************************************************************)
(* The join of the provider queries (Spec)                                 *)
(***************************************************************************)
\* every provider function of call l has returned its result
AllSettled(l) == \A p \in Providers : lk[l].prov[p].st = "settled"

\* this step puts into the tile cache an entry that was not there
TileCacheWritten ==
    \E i \in 1..Len(aqiCache') : \A j \in 1..Len(aqiCache) : aqiCache'[i] # aqiCache[j]

\* C25: for one coordinate lookup the three provider queries are all issued
\* before any of them is awaited, and aggregation and the cache write
\* happen only after all three have settled; a result is never aggregated
\* from a partial set of still-pending providers.
C25_IssuedTogetherJoinedBeforeAggregation ==
    /\ [](\A l \in Lookups :
             /\ lk[l].pc = "fetching" =>
                   /\ \A p \in Providers : lk[l].prov[p].st # "none"
                   /\ lk[l].agg = None /\ lk[l].ret = None
             /\ lk[l].pc = "aggregated" => AllSettled(l))
    /\ [][/\ \A l \in Lookups :
                (lk[l].agg = None /\ lk'[l].agg # None) => AllSettled(l)
          /\ TileCacheWritten =>
                \E l \in Lookups :
                    /\ lk[l].pc = "aggregated" /\ AllSettled(l)
                    /\ lk'[l].ret = lk[l].agg]_vars

\* a lookup that sent a fetch to each of the three providers has aggregated
\* their three settled results into a weighted mean
C25_Witness ==
    \E l \in Lookups :
        /\ lk[l].pc = "aggregated" /\ lk[l].net = Providers
        /\ AllSettled(l)
        /\ lk[l].agg.source = "aggregated"

(***************************************************************************)
(* The provider calls of one routing request (LoopSpec).                   *)
(* findParetoOptimalRoutes awaits calculateExposureDose for one edge after *)
(* the other, then findSingleObjectiveRoute awaits getAQIWithCache for one *)
(* edge after the other, once per weight pair; every getAQI that misses    *)
(* the tile cache issues its provider fetches together (Promise.all).      *)
(*   fx.pc     "exposure" | "sweep" | "end"                                *)
(*   fx.i      index in edgeWeights of the next edge to look up            *)
(*   fx.w      index of the weight pair of the sweep                       *)
(*   fx.calls  the getAQI calls awaiting their providers: coordinate and,  *)
(*             per provider, "pending" | "hung" | "settled" and the result *)
(*   fx.peak   the largest number of fetches seen in flight                *)
(***************************************************************************)
\* fetches issued and not settled
InFlightOf(calls) ==
    Cardinality({kp \in (1..Len(calls)) \X Providers :
                    calls[kp[1]].prov[kp[2]].st \in {"pending", "hung"}})
InFlight == InFlightOf(fx.calls)

LoopInit ==
    /\ now = 0
    /\ aqiCache = <<>>
    /\ srcCache = [p \in Providers |-> <<>>]
    /\ lk = [l \in Lookups |-> IdleLookup]
    /\ evicted = [t \in Tiles |-> None]
    /\ \E r \in RouteIds :
          /\ roadGraph = OwnGraph(r).roadGraph
          /\ nodePositions = OwnGraph(r).nodePositions
          /\ edgeWeights = OwnGraph(r).edgeWeights
    /\ gAqiCache = <<>>
    /\ air = AirOf(Moderate, Clean)
    /\ rq = IdleRequest
    /\ hist = [n |-> 0, first |-> None]
    /\ ui = IdleUi
    /\ fx = [pc |-> "exposure", i |-> 1, w |-> 0, calls |-> <<>>, peak |-> 0]

\* every edge lookup issued at once, none awaited before the next
LoopMayIssueAll(calls) == TRUE

\* `await` inside the for loop: the next edge is looked up only after the
\* previous lookup has returned
LoopMayIssue(calls) == calls = <<>>

Key3(c) == <<toFixed3(c.lat), toFixed3(c.lng)>>
GAqiLive(c) ==
    /\ Key3(c) \in DOMAIN gAqiCache
    /\ now - gAqiCache[Key3(c)].timestamp < G_AQI_TTL_MS
GAqiSet(c, data) == (Key3(c) :> [value |-> data.value, timestamp |-> now]) @@ gAqiCache

LoopVarsIdle == <<now, lk, evicted, roadGraph, nodePositions, edgeWeights, air, rq, hist, ui>>

\* One iteration up to its await: in the sweep getAQIWithCache answers from
\* its own cache when it can; otherwise getAQI answers from the tile cache
\* or starts the three provider functions, each of which answers from its
\* provider cache or issues its fetch.
LoopLookup ==
    /\ fx.pc \in {"exposure", "sweep"}
    /\ fx.i <= Len(edgeWeights)
    /\ LoopMayIssue(fx.calls)
    /\ LET c == edgeWeights[fx.i].midpoint
           key == getTileKey(c)
           got == SimpleCacheGet(aqiCache, key, TILE_TTL_MS, now)
           pg == [p \in Providers |-> ProviderGet(p, key)]
       IN  IF fx.pc = "sweep" /\ GAqiLive(c)
           THEN /\ fx' = [fx EXCEPT !.i = fx.i + 1]
                /\ UNCHANGED <<aqiCache, srcCache, gAqiCache>>
           ELSE /\ aqiCache' = got.cache
                /\ IF got.hit
                   THEN /\ fx' = [fx EXCEPT !.i = fx.i + 1]
                        /\ gAqiCache' = IF fx.pc = "sweep" THEN GAqiSet(c, got.value)
                                        ELSE gAqiCache
                        /\ srcCache' = srcCache
                   ELSE /\ srcCache' = [p \in Providers |-> pg[p].cache]
                        /\ gAqiCache' = gAqiCache
                        /\ fx' = [fx EXCEPT
                             !.i = fx.i + 1,
                             !.calls = Append(fx.calls,
                                 [coord |-> c,
                                  prov |-> [p \in Providers |->
                                              IF pg[p].hit
                                              THEN [st |-> "settled", res |-> pg[p].value]
                                              ELSE [st |-> "pending", res |-> None]]]),
                             !.peak = Max(fx.peak,
                                 InFlightOf(fx.calls)
                                   + Cardinality({p \in Providers : ~pg[p].hit}))]
    /\ UNCHANGED LoopVarsIdle

\* a fetch of call k settles and its provider function returns
LoopRespond(k, p, outcome) ==
    /\ k \in 1..Len(fx.calls)
    /\ fx.calls[k].prov[p].st = "pending"
    /\ LET key == getTileKey(fx.calls[k].coord)
           r == IF ~outcome.ok THEN ErrorResult(p) ELSE ProviderResult(p, outcome.raw)
       IN  /\ fx' = [fx EXCEPT !.calls[k].prov[p] = [st |-> "settled", res |-> r]]
           /\ srcCache' = IF ~outcome.ok THEN srcCache
                          ELSE [srcCache EXCEPT ![p] =
                                  SimpleCacheSet(srcCache[p], SrcCacheMax, key, r, now)]
    /\ UNCHANGED <<aqiCache, gAqiCache>>
    /\ UNCHANGED LoopVarsIdle

\* a fetch of call k never settles (no timeout, no abort signal)
LoopHang(k, p) ==
    /\ k \in 1..Len(fx.calls)
    /\ fx.calls[k].prov[p].st = "pending"
    /\ fx' = [fx EXCEPT !.calls[k].prov[p].st = "hung"]
    /\ UNCHANGED <<aqiCache, srcCache, gAqiCache>>
    /\ UNCHANGED LoopVarsIdle

\* Promise.all of call k resolves: aggregation, tile cache write, and in the
\* sweep the write of getAQIWithCache; the loop has its value
LoopJoin(k) ==
    /\ k \in 1..Len(fx.calls)
    /\ \A p \in Providers : fx.calls[k].prov[p].st = "settled"
    /\ LET c == fx.calls[k].coord
           agg == AggregateResults([p \in Providers |-> fx.calls[k].prov[p].res])
       IN  /\ aqiCache' = SimpleCacheSet(aqiCache, AqiCacheMax, getTileKey(c), agg, now)
           /\ gAqiCache' = IF fx.pc = "sweep" THEN GAqiSet(c, agg) ELSE gAqiCache
           /\ fx' = [fx EXCEPT !.calls = [j \in 1..(Len(fx.calls) - 1) |->
                                            IF j < k THEN fx.calls[j] ELSE fx.calls[j + 1]]]
    /\ srcCache' = srcCache
    /\ UNCHANGED LoopVarsIdle

\* the loop over the edges has ended: the sweep starts, the solver is called
\* for the next weight pair, or the request is over
LoopNextPhase ==
    /\ fx.pc \in {"exposure", "sweep"}
    /\ fx.i > Len(edgeWeights)
    /\ fx.calls = <<>>
    /\ fx' = IF fx.w < Len(WeightCombinations)
             THEN [fx EXCEPT !.pc = "sweep", !.i = 1, !.w = fx.w + 1]
             ELSE [fx EXCEPT !.pc = "end"]
    /\ UNCHANGED <<aqiCache, srcCache, gAqiCache>>
    /\ UNCHANGED LoopVarsIdle

LoopNext ==
    \/ LoopLookup
    \/ \E k \in 1..Len(fx.calls), p \in Providers : \E o \in Outcomes(p) : LoopRespond(k, p, o)
    \/ \E k \in 1..Len(fx.calls), p \in Providers : LoopHang(k, p)
    \/ \E k \in 1..Len(fx.calls) : LoopJoin(k)
    \/ LoopNextPhase

LoopSpec == LoopInit /\ [][LoopNext]_vars

\* C26: during one routing request at most 8 outbound provider calls are in
\* flight at any moment, whatever the number of edges of the graph.
C26_AtMostEightInFlight == InFlight <= 8 /\ fx.peak <= 8

\* a sweep has run to its end over a graph of six directed edges with three
\* fetches in flight at some moment
C26_Witness ==
    /\ fx.pc = "end"
    /\ Len(edgeWeights) >= 6
    /\ fx.peak = Cardinality(Providers)

\* C27: a getAQI call with forceRefresh = true issues a network fetch to
\* every provider, so nothing it aggregates or returns was served from the
\* tile cache or from a provider cache.
C27_ForceRefreshFetchesEveryProvider ==
    \A l \in Lookups :
        (lk[l].force /\ lk[l].pc # "idle") => lk[l].net = Providers

(***************************************************************************)
(* SimpleCache on its own (CacheSpec): one cache of capacity CacheMaxSize, *)
(* any sequence of get and set on CacheKeys while the clock advances.      *)
(*   aqiCache  the Map, in insertion order                                 *)
(*   fx        the last set: whether it found the cache full, the entry    *)
(*             it deleted and the Map it was called on                     *)
(***************************************************************************)
CacheMaxSize == 3
NumCacheKeys == 3
CacheKeys == 1..NumCacheKeys

CacheInit ==
    /\ now = 0
    /\ aqiCache = <<>>
    /\ srcCache = [p \in Providers |-> <<>>]
    /\ lk = [l \in Lookups |-> IdleLookup]
    /\ evicted = [t \in Tiles |-> None]
    /\ roadGraph = <<>>
    /\ nodePositions = <<>>
    /\ edgeWeights = <<>>
    /\ gAqiCache = <<>>
    /\ air = AirOf(Moderate, Clean)
    /\ rq = IdleRequest
    /\ hist = [n |-> 0, first |-> None]
    /\ ui = IdleUi
    /\ fx = [pc |-> "cache", full |-> FALSE, deleted |-> None, before |-> <<>>]

CacheVarsIdle == <<srcCache, lk, evicted, roadGraph, nodePositions, edgeWeights,
                   gAqiCache, air, rq, hist, ui>>

\* cache.get(key)
CacheGet(key) ==
    /\ aqiCache' = SimpleCacheGet(aqiCache, key, TILE_TTL_MS, now).cache
    /\ aqiCache' # aqiCache
    /\ UNCHANGED <<now, fx>>
    /\ UNCHANGED CacheVarsIdle

\* cache.set(key, value)
CacheSet(key) ==
    /\ aqiCache' = SimpleCacheSet(aqiCache, CacheMaxSize, key, 0, now)
    /\ fx' = [pc |-> "cache",
              full |-> Len(aqiCache) >= CacheMaxSize,
              deleted |-> IF Len(aqiCache) >= CacheMaxSize THEN Head(aqiCache) ELSE None,
              before |-> aqiCache]
    /\ UNCHANGED now
    /\ UNCHANGED CacheVarsIdle

CacheTick ==
    /\ now < (MaxTicks + 1) * TickMs
    /\ now' = now + TickMs
    /\ UNCHANGED <<aqiCache, fx>>
    /\ UNCHANGED CacheVarsIdle

CacheNext ==
    \/ \E key \in CacheKeys : CacheGet(key)
    \/ \E key \in CacheKeys : CacheSet(key)
    \/ CacheTick

CacheSpec == CacheInit /\ [][CacheNext]_vars

\* C28: a set on a full cache evicts the entry with the oldest timestamp of
\* the stored entries, also after sets that overwrote a key already present.
C28_EvictsOldestTimestamp ==
    fx.full =>
        \A i \in 1..Len(fx.before) : fx.deleted.timestamp <= fx.before[i].timestamp

\* C29: within one sweep the AQI level that decides whether an edge exceeds
\* maxAQIThreshold (getAQIWithCache) is the level behind that edge's exposure
\* dose (AQIService.getAQI in calculateExposureDose), whatever requests came
\* before and however much time has passed.
C29_ThresholdLevelIsExposureLevel ==
    [][(SweepStep /\ rq.thr < 5)
         => \A k \in DOMAIN rq'.run.levels :
               k \in DOMAIN rq.expLevel => rq'.run.levels[k] = rq.expLevel[k]]_vars

(***************************************************************************)
(* processRoutes of script.js, second pass (PickSpec): the loop that finds *)
(* the best route for the selected route type, then the drawing pass that  *)
(* marks it.  avgAQI is what the first pass stored (-1: no AQI), distance  *)
(* is summary.totalDistance in metres; scores are in 1/10000.              *)
(*   fx.routes          avgAQI, distance and totalScore of every route     *)
(*   fx.i               index of the route the loop is at (from 1)         *)
(*   fx.bestRouteIndex  0 stands for the -1 of the code                    *)
(*   fx.against         what the last balanced comparison compared with,   *)
(*                      fx.bestWas the best route at that comparison       *)
(*   fx.marked          the route drawn and shown as the best              *)
(***************************************************************************)
MaxRoutes == 3
Infinity == 1000000000
\* a property no statement has assigned yet
Undefined == 0 - 1
AvgAQIs == {-1, 1, 4}
\* 0 m: start and end at one place; 1000 m with AQI 4 ties 8000 m with AQI 1
Distances == {0, 1000, 8000}
RouteTypes == {"aqi", "distance", "balanced"}
FoundRoutes ==
    UNION {[1..n -> [avgAQI : AvgAQIs, distance : Distances, totalScore : {Undefined}]] :
             n \in 1..MaxRoutes}

PickInit ==
    /\ now = 0
    /\ aqiCache = <<>>
    /\ srcCache = [p \in Providers |-> <<>>]
    /\ lk = [l \in Lookups |-> IdleLookup]
    /\ evicted = [t \in Tiles |-> None]
    /\ roadGraph = <<>>
    /\ nodePositions = <<>>
    /\ edgeWeights = <<>>
    /\ gAqiCache = <<>>
    /\ air = AirOf(Moderate, Clean)
    /\ rq = IdleRequest
    /\ hist = [n |-> 0, first |-> None]
    /\ ui = IdleUi
    /\ \E routes \in FoundRoutes, routeType \in RouteTypes, avoid \in BOOLEAN :
          fx = [pc |-> "second", routes |-> routes, routeType |-> routeType,
                shouldAvoidHighAQI |-> avoid, i |-> 1, bestRouteIndex |-> 0,
                bestAQI |-> Infinity, shortestDistance |-> Infinity,
                against |-> Undefined, bestWas |-> 0, marked |-> 0]

\* route.summary?.totalDistance || Infinity
DistanceOrInfinity(route) == IF route.distance = 0 THEN Infinity ELSE route.distance
\* (aqiScore * 0.7) + (distanceScore * 0.3), unknown AQI counted as 5
TotalScore(route) ==
    IF DistanceOrInfinity(route) = Infinity THEN Infinity
    ELSE 7000 * (IF route.avgAQI # -1 THEN route.avgAQI ELSE 5) + 3 * route.distance
\* routes[bestRouteIndex]?.totalScore || Infinity
BestScoreOrInfinity(routes, best) ==
    IF best = 0 \/ routes[best].totalScore = Undefined \/ routes[best].totalScore = 0
    THEN Infinity ELSE routes[best].totalScore

PickVarsIdle == <<now, aqiCache, srcCache, lk, evicted, roadGraph, nodePositions,
                  edgeWeights, gAqiCache, air, rq, hist, ui>>

\* one turn of the second loop
PickStep ==
    /\ fx.pc = "second"
    /\ fx.i <= Len(fx.routes)
    /\ LET route == fx.routes[fx.i]
           next == [fx EXCEPT !.i = fx.i + 1]
       IN  fx' =
             IF fx.shouldAvoidHighAQI /\ route.avgAQI >= 4 THEN next
             ELSE IF fx.routeType = "aqi" /\ route.avgAQI # -1 /\ route.avgAQI < fx.bestAQI
             THEN [next EXCEPT !.bestAQI = route.avgAQI, !.bestRouteIndex = fx.i]
             ELSE IF fx.routeType = "distance"
                     /\ DistanceOrInfinity(route) < fx.shortestDistance
             THEN [next EXCEPT !.shortestDistance = DistanceOrInfinity(route),
                               !.bestRouteIndex = fx.i]
             ELSE IF fx.routeType = "balanced"
             THEN LET seen == [next EXCEPT
                                 !.against = BestScoreOrInfinity(fx.routes, fx.bestRouteIndex),
                                 !.bestWas = fx.bestRouteIndex]
                  IN  IF TotalScore(route) < BestScoreOrInfinity(fx.routes, fx.bestRouteIndex)
                      THEN [seen EXCEPT !.bestRouteIndex = fx.i,
                                        !.routes[fx.i].totalScore = TotalScore(route)]
                      ELSE seen
             ELSE next
    /\ UNCHANGED PickVarsIdle

\* the third pass and the info panel: the route at bestRouteIndex is drawn
\* as the best one
PickDraw ==
    /\ fx.pc = "second"
    /\ fx.i > Len(fx.routes)
    /\ fx' = [fx EXCEPT !.pc = "done", !.marked = fx.bestRouteIndex]
    /\ UNCHANGED PickVarsIdle

PickNext == PickStep \/ PickDraw

PickSpec == PickInit /\ [][PickNext]_vars

\* the routes the high-AQI filter does not skip, and the stated score
NotSkipped ==
    {i \in 1..Len(fx.routes) : ~(fx.shouldAvoidHighAQI /\ fx.routes[i].avgAQI >= 4)}
StatedScore(route) ==
    7000 * (IF route.avgAQI # -1 THEN route.avgAQI ELSE 5) + 3 * route.distance
MarkedIsFirstMinimum ==
    /\ fx.marked \in NotSkipped
    /\ \A j \in NotSkipped :
          /\ StatedScore(fx.routes[fx.marked]) <= StatedScore(fx.routes[j])
          /\ StatedScore(fx.routes[j]) = StatedScore(fx.routes[fx.marked]) => fx.marked <= j
ComparedWithCurrentBest ==
    fx.against # Undefined =>
        fx.against = IF fx.bestWas = 0 THEN Infinity
                     ELSE StatedScore(fx.routes[fx.bestWas])

\* C30: in balanced mode the route marked as best is the first route of
\* minimum score 0.7 * AQI + 0.3 * distanceKm among the routes the high-AQI
\* filter does not skip, and every comparison is with the score of the
\* route that is best at that moment.
C30_BalancedMarksFirstMinimum ==
    fx.routeType = "balanced" =>
        /\ ComparedWithCurrentBest
        /\ (fx.pc = "done" /\ NotSkipped # {}) => MarkedIsFirstMinimum

\* the same for routes of positive length
BalancedMarksFirstMinimumOfPositiveLengths ==
    (fx.routeType = "balanced" /\ \A i \in 1..Len(fx.routes) : fx.routes[i].distance > 0) =>
        /\ ComparedWithCurrentBest
        /\ (fx.pc = "done" /\ NotSkipped # {}) => MarkedIsFirstMinimum


============================================================================
